---- MODULE Spec2Model ----
(***************************************************************************)
(* Deep Space Dash (src/deep_space_dash.py): the Game object's main loop   *)
(* as a state machine.  One step of the model is one iteration of          *)
(* Game.run: handle_input, then update_launch_animation or update_game,    *)
(* then the state changes made by draw.                                    *)
(*                                                                         *)
(* Number representation.  TLC has 32-bit integers and no reals, so:       *)
(*   - pixel quantities (pixels_traveled, speeds, entity x) are kept in    *)
(*     thousandths of a pixel; every speed of the program is a multiple of *)
(*     SPEED_INCREASE_RATE = 0.001, so these are exact integers;           *)
(*   - distances are kept in units of KmPerUnit = 50 km, the distance of   *)
(*     one thousandth of a pixel (KM_PER_PIXEL / 1000): every distance the *)
(*     program computes is a multiple of it;                               *)
(*   - the difficulty multiplier is kept in hundredths (1.15 is 115);      *)
(*   - the spawn delay is kept as an exact fraction;                       *)
(*   - entity movement speed * current_speed / obstacle_speed is computed  *)
(*     in thousandths of a pixel, rounded down.                            *)
(* Rendering-only state (stars, earth_y, earth_size, colours, the date     *)
(* string of a leaderboard entry) is left out.                             *)
(***************************************************************************)
EXTENDS Integers, Sequences, FiniteSets, TLC

VARIABLES
    game,      \* the Game object: its fields, its ship, hud and leaderboard
    running,   \* the local flag of Game.run
    disk,      \* the scores kept in LEADERBOARD_FILE
    log,       \* history of the current iteration and of the current run
    twin,      \* two copies of the progression state (boost never / always held)
    probe      \* an input and the result of calculate_difficulty_multiplier

vars == <<game, running, disk, log, twin, probe>>

-----------------------------------------------------------------------------
(* Program constants, in the model's units.                                *)

SCREEN_WIDTH == 800
SCREEN_HEIGHT == 600
KmPerUnit == 50
MilliPixel == 1000
EXTRA_LIFE_DISTANCE == 1000000000 \div KmPerUnit
MAX_EXTRA_LIVES == 3
INITIAL_OBSTACLE_SPEED == 3 * MilliPixel
BASE_SPEED == 3 * MilliPixel
MAX_OBSTACLE_SPEED == 15 * MilliPixel
SPEED_INCREASE_RATE == 1
BOOST_SPEED == 20 * MilliPixel
MAX_BOOST_SPEED == 35 * MilliPixel
INITIAL_SPAWN_DELAY == 90
MIN_SPAWN_DELAY == 20
SPAWN_DECREASE_RATE == 1
InvulnerableFrames == 120
LaunchDuration == 180
LeaderboardSize == 10
FirstProceduralDistance == 5 * (1000000000 \div KmPerUnit)
DifficultySegmentKm == 500000000
DifficultyStep == 15
DifficultyCap == 300

\* PLANET_MILESTONES: name, threshold (units of 50 km), radius.
PLANET_MILESTONES ==
    << [name |-> "Moon",    distance |-> 7688,     radius |-> 30],
       [name |-> "Mars",    distance |-> 4506000,  radius |-> 50],
       [name |-> "Jupiter", distance |-> 15570000, radius |-> 100],
       [name |-> "Saturn",  distance |-> 28660000, radius |-> 90],
       [name |-> "Uranus",  distance |-> 57420000, radius |-> 70],
       [name |-> "Neptune", distance |-> 89900000, radius |-> 70] >>

\* teleport_options of teleport_player, in thousandths of a pixel
\* (teleport_km / KM_PER_PIXEL): 100 km .. 1,000,000,000 km.
teleport_options ==
    { km \div KmPerUnit :
        km \in {100, 1000, 10000, 100000, 1000000,
                10000000, 100000000, 1000000000} }

NearJump == 100 \div KmPerUnit         \* the smallest teleport
FarJump == 1000000000 \div KmPerUnit   \* the largest teleport

\* The game states.
MENU == "MENU"
COLOR_SELECT == "COLOR_SELECT"
LAUNCH_ANIMATION == "LAUNCH_ANIMATION"
RUNNING == "RUNNING"
GAME_OVER == "GAME_OVER"
PAUSED == "PAUSED"
LEADERBOARD == "LEADERBOARD"

-----------------------------------------------------------------------------
(* Arithmetic helpers.                                                     *)

Min(a, b) == IF a <= b THEN a ELSE b
Max(a, b) == IF a >= b THEN a ELSE b

\* Python's int() of a value given in thousandths: truncation toward zero.
IntTrunc(milli) ==
    IF milli >= 0 THEN milli \div 1000 ELSE -((-milli) \div 1000)

-----------------------------------------------------------------------------
(* pygame.Rect and the entities.                                           *)

Rect(x, y, w, h) == [x |-> x, y |-> y, w |-> w, h |-> h]

\* pygame.Rect.colliderect: overlap with positive area (touching edges do
\* not collide).
colliderect(a, b) ==
    /\ a.x < b.x + b.w
    /\ a.y < b.y + b.h
    /\ a.x + a.w > b.x
    /\ a.y + a.h > b.y

\* Spaceship.__init__: x = 100, width 40, height 30, speed 5.
ShipX == 100
ShipWidth == 40
ShipHeight == 30
ShipSpeed == 5

Spaceship(y) ==
    [none |-> FALSE, y |-> y, invulnerable |-> FALSE, invulnerable_timer |-> 0]

\* Game.ship before the first reset_game (None).
NoShip ==
    [none |-> TRUE, y |-> 0, invulnerable |-> FALSE, invulnerable_timer |-> 0]

\* Spaceship.set_invulnerable
set_invulnerable(ship, frames) ==
    [ship EXCEPT !.invulnerable = TRUE, !.invulnerable_timer = frames]

\* Spaceship.update with "<" for "<=" in the test of the timer.
ship_update_late(ship) ==
    IF ship.invulnerable
    THEN [ship EXCEPT !.invulnerable_timer = @ - 1,
                      !.invulnerable = ~(ship.invulnerable_timer - 1 < 0)]
    ELSE ship

\* Spaceship.update
ship_update(ship) ==
    IF ship.invulnerable
    THEN [ship EXCEPT !.invulnerable_timer = @ - 1,
                      !.invulnerable = ~(ship.invulnerable_timer - 1 <= 0)]
    ELSE ship

\* Spaceship.move
ship_move(ship, dy) ==
    [ship EXCEPT !.y = Max(10, Min(SCREEN_HEIGHT - ShipHeight - 10,
                                   ship.y + dy * ShipSpeed))]

\* Spaceship.get_rect
ship_rect(ship) == Rect(ShipX, ship.y, ShipWidth, ShipHeight)

\* Obstacle / BlackHole / Portal / Planet: x in thousandths of a pixel.
Entity(x, y, radius, speed) ==
    [x |-> x, y |-> y, radius |-> radius, speed |-> speed]

BlackHoleRadius == 40
PortalRadius == 35

\* Obstacle.update, BlackHole.update, Portal.update:
\* x -= speed * speed_multiplier, speed_multiplier = cur / obs.
entity_update(e, cur, obs) ==
    [e EXCEPT !.x = e.x - ((e.speed * cur) \div obs)]

\* Planet.update: x -= base_speed * speed_multiplier with base_speed = cur.
planet_update(e, cur, obs) ==
    [e EXCEPT !.x = e.x - ((cur * cur) \div obs)]

\* is_off_screen with the margin of Planet.is_off_screen.
is_off_screen_with_margin(e) == e.x + e.radius * 1000 < -100000

\* Obstacle.is_off_screen, BlackHole.is_off_screen, Portal.is_off_screen
is_off_screen(e) == e.x + e.radius * 1000 < 0

\* Planet.is_off_screen
planet_is_off_screen(e) == e.x + e.radius * 1000 < -100000

\* get_rect of Obstacle, BlackHole and Portal (pygame.Rect truncates).
entity_rect(e) ==
    Rect(IntTrunc(e.x - e.radius * 1000), e.y - e.radius,
         e.radius * 2, e.radius * 2)

-----------------------------------------------------------------------------
(* Leaderboard.                                                            *)

ScoreEntry(score, distance_km, ship_color) ==
    [score |-> score, distance_km |-> distance_km, ship_color |-> ship_color]

\* self.scores.append(entry); self.scores.sort(key=score, reverse=True):
\* the list is kept sorted and the sort is stable, so the new entry lands
\* behind every entry whose score is at least its own.
RECURSIVE SortedAppend(_, _)
SortedAppend(scores, entry) ==
    IF scores = << >> THEN <<entry>>
    ELSE IF Head(scores).score >= entry.score
         THEN <<Head(scores)>> \o SortedAppend(Tail(scores), entry)
         ELSE <<entry>> \o scores

\* self.scores[:10]
TopScores(scores) ==
    IF Len(scores) <= LeaderboardSize THEN scores
    ELSE SubSeq(scores, 1, LeaderboardSize)

\* save_scores without "except: pass": the error of a failed write
\* propagates out of the iteration.
save_scores_raising(w, io) ==
    IF io THEN [w EXCEPT !.disk = w.g.leaderboard]
    ELSE [w EXCEPT !.l.crashed = TRUE]

\* Leaderboard.save_scores: the write succeeds (io) or the error is
\* swallowed and the file is left as it was.
save_scores(w, io) ==
    IF io THEN [w EXCEPT !.disk = w.g.leaderboard] ELSE w

\* Leaderboard.add_score
add_score(w, score, distance_km, ship_color, io) ==
    LET entry == ScoreEntry(score, distance_km, ship_color)
        w1 == [w EXCEPT !.g.leaderboard = TopScores(SortedAppend(@, entry)),
                        !.l.add_calls = Append(@, entry),
                        !.l.run_adds = @ + 1]
    IN  save_scores(w1, io)

-----------------------------------------------------------------------------
(* Game: construction and reset.                                           *)

Fraction(num, den) == [num |-> num, den |-> den]

\* Game.__init__ (Leaderboard.__init__ loads the scores kept on disk).
NewGame(saved) ==
    [ state |-> MENU,
      leaderboard |-> saved,
      selected_color |-> "blue",
      ship |-> NoShip,
      obstacles |-> << >>,
      black_holes |-> << >>,
      portals |-> << >>,
      planets |-> << >>,
      hud |-> [milestone_timer |-> 0, milestone_text |-> <<"">>],
      launch_timer |-> 0,
      distance |-> 0,
      pixels_traveled |-> 0,
      current_speed |-> BASE_SPEED,
      score |-> 0,
      obstacle_speed |-> INITIAL_OBSTACLE_SPEED,
      spawn_delay |-> Fraction(INITIAL_SPAWN_DELAY * 100, 1),
      spawn_timer |-> 0,
      frame_count |-> 0,
      is_boosting |-> FALSE,
      extra_lives |-> 0,
      last_life_distance |-> 0,
      milestone_index |-> 0,
      last_planet_passed |-> "Earth",
      passed_neptune |-> FALSE,
      procedural_milestones |-> << >>,
      next_procedural_distance |-> FirstProceduralDistance,
      planet_shown |-> [i \in 1..Len(PLANET_MILESTONES) |-> FALSE] ]

\* The history kept beside the program state.  The first group is cleared
\* at the start of every iteration of Game.run, the second by reset_game.
NewTickLog(l) ==
    [l EXCEPT !.updated = FALSE,
              !.pre = [state |-> MENU, milestone_index |-> 0],
              !.inv_at_check = FALSE,
              !.lives_at_check = 0,
              !.collisions = << >>,
              !.ignored = 0,
              !.add_calls = << >>,
              !.fixed_events = << >>,
              !.proc_events = << >>,
              !.teleports = << >>,
              !.reaped = 0]

NewLog ==
    [ updated |-> FALSE,      \* update_game ran past its state test
      pre |-> [state |-> MENU, milestone_index |-> 0],
                              \* state and cursor the iteration started with
      inv_at_check |-> FALSE, \* the ship's flag after Spaceship.update
      lives_at_check |-> 0,   \* extra_lives after the extra life system
      collisions |-> << >>,   \* one record per handle_collision call
      ignored |-> 0,          \* overlaps skipped because of invulnerability
      add_calls |-> << >>,    \* the arguments of each add_score call
      fixed_events |-> << >>, \* names shown for fixed milestones
      proc_events |-> << >>,  \* thresholds shown for procedural milestones
      teleports |-> << >>,    \* jumps made by teleport_player
      reaped |-> 0,           \* entities removed as off screen
      crashed |-> FALSE,      \* an uncaught exception ended the program
      run_no |-> 0,           \* reset_game calls so far
      run_adds |-> 0,         \* add_score calls since reset_game
      fired |-> << >>,        \* fixed milestone names shown since reset_game
      generated |-> << >>,    \* thresholds generated since reset_game
      withheld |-> FALSE,     \* the run's last life check found the next
                              \* mark crossed and granted nothing
      loss_frame |-> 0,       \* frame_count when the run last lost a life
                              \* (0: not yet)
      ended |-> 0,            \* runs that reached GAME_OVER
      keys |-> {},            \* the keys held in the last iteration of a run
      ticks |-> 0,            \* iterations in RUNNING or PAUSED since Init
      events |-> 0 ]          \* key changes in a run and random spawns since Init

\* reset_game without "self.obstacles = []": the restart property below
\* must tell it from reset_game.
reset_game_keeping_obstacles(w) ==
    [w EXCEPT
        !.g.ship = Spaceship(SCREEN_HEIGHT \div 2),
        !.g.black_holes = << >>,
        !.g.portals = << >>,
        !.g.planets = << >>,
        !.g.distance = 0,
        !.g.pixels_traveled = 0,
        !.g.current_speed = BASE_SPEED,
        !.g.score = 0,
        !.g.obstacle_speed = INITIAL_OBSTACLE_SPEED,
        !.g.spawn_delay = Fraction(INITIAL_SPAWN_DELAY * 100, 1),
        !.g.spawn_timer = 0,
        !.g.frame_count = 0,
        !.g.milestone_index = 0,
        !.g.last_planet_passed = "Earth",
        !.g.passed_neptune = FALSE,
        !.g.procedural_milestones = << >>,
        !.g.next_procedural_distance = FirstProceduralDistance,
        !.g.hud.milestone_timer = 0,
        !.g.is_boosting = FALSE,
        !.g.planet_shown = [i \in 1..Len(PLANET_MILESTONES) |-> FALSE],
        !.g.launch_timer = 0,
        !.g.extra_lives = 0,
        !.g.last_life_distance = 0,
        !.l.run_no = @ + 1,
        !.l.run_adds = 0,
        !.l.fired = << >>,
        !.l.generated = << >>,
        !.l.withheld = FALSE,
        !.l.loss_frame = 0]

\* Game.reset_game
reset_game(w) ==
    [w EXCEPT
        !.g.ship = Spaceship(SCREEN_HEIGHT \div 2),
        !.g.obstacles = << >>,
        !.g.black_holes = << >>,
        !.g.portals = << >>,
        !.g.planets = << >>,
        !.g.distance = 0,
        !.g.pixels_traveled = 0,
        !.g.current_speed = BASE_SPEED,
        !.g.score = 0,
        !.g.obstacle_speed = INITIAL_OBSTACLE_SPEED,
        !.g.spawn_delay = Fraction(INITIAL_SPAWN_DELAY * 100, 1),
        !.g.spawn_timer = 0,
        !.g.frame_count = 0,
        !.g.milestone_index = 0,
        !.g.last_planet_passed = "Earth",
        !.g.passed_neptune = FALSE,
        !.g.procedural_milestones = << >>,
        !.g.next_procedural_distance = FirstProceduralDistance,
        !.g.hud.milestone_timer = 0,
        !.g.is_boosting = FALSE,
        !.g.planet_shown = [i \in 1..Len(PLANET_MILESTONES) |-> FALSE],
        !.g.launch_timer = 0,
        !.g.extra_lives = 0,
        !.g.last_life_distance = 0,
        !.l.run_no = @ + 1,
        !.l.run_adds = 0,
        !.l.fired = << >>,
        !.l.generated = << >>,
        !.l.withheld = FALSE,
        !.l.loss_frame = 0]

-----------------------------------------------------------------------------
(* Game.handle_input: keys is the set of keys pygame reports as held.      *)

select_color(w, color) ==
    [reset_game([w EXCEPT !.g.selected_color = color])
        EXCEPT !.g.state = LAUNCH_ANIMATION]

\* handle_input_running without "if keys[pygame.K_p]: self.state = PAUSED".
handle_input_running_never_pausing(w, keys) ==
    LET s1 == IF "w" \in keys \/ "UP" \in keys
              THEN ship_move(w.g.ship, -1) ELSE w.g.ship
        s2 == IF "s" \in keys \/ "DOWN" \in keys
              THEN ship_move(s1, 1) ELSE s1
    IN  [w EXCEPT !.g.ship = s2,
                  !.g.is_boosting = ("RIGHT" \in keys)]

handle_input_running(w, keys) ==
    LET s1 == IF "w" \in keys \/ "UP" \in keys
              THEN ship_move(w.g.ship, -1) ELSE w.g.ship
        s2 == IF "s" \in keys \/ "DOWN" \in keys
              THEN ship_move(s1, 1) ELSE s1
    IN  [w EXCEPT !.g.ship = s2,
                  !.g.is_boosting = ("RIGHT" \in keys),
                  !.g.state = IF "p" \in keys THEN PAUSED ELSE @]

handle_input(w, keys) ==
    CASE w.g.state = MENU ->
            IF "SPACE" \in keys THEN [w EXCEPT !.g.state = COLOR_SELECT]
            ELSE IF "l" \in keys THEN [w EXCEPT !.g.state = LEADERBOARD]
            ELSE w
      [] w.g.state = LEADERBOARD ->
            IF "ESCAPE" \in keys \/ "SPACE" \in keys
            THEN [w EXCEPT !.g.state = MENU] ELSE w
      [] w.g.state = COLOR_SELECT ->
            IF "1" \in keys THEN select_color(w, "red")
            ELSE IF "2" \in keys THEN select_color(w, "green")
            ELSE IF "3" \in keys THEN select_color(w, "blue")
            ELSE IF "4" \in keys THEN select_color(w, "yellow")
            ELSE w
      [] w.g.state = RUNNING -> handle_input_running(w, keys)
      [] w.g.state = PAUSED ->
            IF "p" \in keys THEN [w EXCEPT !.g.state = RUNNING] ELSE w
      [] w.g.state = GAME_OVER ->
            IF "r" \in keys THEN [w EXCEPT !.g.state = COLOR_SELECT]
            ELSE IF "l" \in keys THEN [w EXCEPT !.g.state = LEADERBOARD]
            ELSE w
      [] OTHER -> w

\* update_launch_animation with ">" for ">=" in line 601.
update_launch_animation_one_late(w) ==
    IF w.g.state # LAUNCH_ANIMATION THEN w
    ELSE [w EXCEPT !.g.launch_timer = @ + 1,
                   !.g.state = IF w.g.launch_timer + 1 > LaunchDuration
                               THEN RUNNING ELSE @]

\* Game.update_launch_animation
update_launch_animation(w) ==
    IF w.g.state # LAUNCH_ANIMATION THEN w
    ELSE [w EXCEPT !.g.launch_timer = @ + 1,
                   !.g.state = IF w.g.launch_timer + 1 >= LaunchDuration
                               THEN RUNNING ELSE @]

-----------------------------------------------------------------------------
(* Game.update_game, in the order of its statements.  The random draws of  *)
(* one iteration are parameters: od, bd, pd (spawns), io (the outcome of   *)
(* the leaderboard write), td (one teleport choice per collected portal),  *)
(* md (planet position, procedural name, category and step).               *)

KmPerMilliPixel == 50

\* int(self.pixels_traveled * KM_PER_PIXEL), in units of KmPerUnit.
DistanceOf(pixels_traveled) ==
    pixels_traveled * (KmPerMilliPixel \div KmPerUnit)

\* calculate_difficulty_multiplier without the min(multiplier, 3.0).
uncapped_difficulty_multiplier(distance, km_per_unit) ==
    100 + (distance \div (DifficultySegmentKm \div km_per_unit)) * DifficultyStep

\* Game.calculate_difficulty_multiplier, in hundredths.  The distance is
\* given in units of km_per_unit kilometres (the game's own distances are
\* in units of KmPerUnit).
calculate_difficulty_multiplier(distance, km_per_unit) ==
    LET distance_segments == distance \div (DifficultySegmentKm \div km_per_unit)
        multiplier == 100 + distance_segments * DifficultyStep
    IN  Min(multiplier, DifficultyCap)

\* advance with the two branches of "if self.is_boosting" exchanged.
advance_boost_swapped(g) ==
    LET cur == IF ~g.is_boosting
               THEN Min(MAX_BOOST_SPEED, g.obstacle_speed + BOOST_SPEED)
               ELSE g.obstacle_speed
        px == g.pixels_traveled + cur
    IN  [g EXCEPT !.current_speed = cur,
                  !.pixels_traveled = px,
                  !.distance = DistanceOf(px)]

\* Lines 629-635: the tick's speed and the distance it adds.  g is any
\* record with the progression fields.
advance(g) ==
    LET cur == IF g.is_boosting
               THEN Min(MAX_BOOST_SPEED, g.obstacle_speed + BOOST_SPEED)
               ELSE g.obstacle_speed
        px == g.pixels_traveled + cur
    IN  [g EXCEPT !.current_speed = cur,
                  !.pixels_traveled = px,
                  !.distance = DistanceOf(px)]

\* Lines 648-649: the base speed ramps toward its maximum.
ramp(g) ==
    [g EXCEPT !.obstacle_speed =
        Min(MAX_OBSTACLE_SPEED, g.obstacle_speed + SPEED_INCREASE_RATE)]

\* extra_life without "if self.extra_lives < MAX_EXTRA_LIVES".
extra_life_uncapped(g) ==
    IF g.distance >= g.last_life_distance + EXTRA_LIFE_DISTANCE
    THEN [g EXCEPT !.extra_lives = @ + 1,
                   !.last_life_distance = g.distance,
                   !.hud.milestone_text = <<"Extra Life!", g.extra_lives + 1>>,
                   !.hud.milestone_timer = 120]
    ELSE g

\* Lines 637-643: the extra life system.
extra_life(g) ==
    IF /\ g.distance >= g.last_life_distance + EXTRA_LIFE_DISTANCE
       /\ g.extra_lives < MAX_EXTRA_LIVES
    THEN [g EXCEPT !.extra_lives = @ + 1,
                   !.last_life_distance = g.distance,
                   !.hud.milestone_text = <<"Extra Life!", g.extra_lives + 1>>,
                   !.hud.milestone_timer = 120]
    ELSE g

\* spawn_delay_of without "max(MIN_SPAWN_DELAY, ...)".
spawn_delay_without_floor(g) ==
    LET m == calculate_difficulty_multiplier(g.distance, KmPerUnit)
    IN  Fraction(INITIAL_SPAWN_DELAY * 100 * 100
                     - g.frame_count * SPAWN_DECREASE_RATE * m,
                 m)

\* Lines 651-653: max(MIN_SPAWN_DELAY, INITIAL_SPAWN_DELAY / multiplier
\* - frame_count * SPAWN_DECREASE_RATE), in hundredths of a tick, as the
\* fraction num / den with den the multiplier in hundredths.
spawn_delay_of(g) ==
    LET m == calculate_difficulty_multiplier(g.distance, KmPerUnit)
    IN  Fraction(Max(MIN_SPAWN_DELAY * 100 * m,
                     INITIAL_SPAWN_DELAY * 100 * 100
                         - g.frame_count * SPAWN_DECREASE_RATE * m),
                 m)

\* Lines 626-627: the frame counter and the ship's own update.
begin_frame(g) ==
    [g EXCEPT !.frame_count = @ + 1, !.ship = ship_update(@)]

\* Lines 645-646: one point for every 60 frames survived.
survival_score(g) ==
    IF g.frame_count % 60 = 0 THEN [g EXCEPT !.score = @ + 1] ELSE g

\* Lines 651-653.
set_spawn_delay(g) == [g EXCEPT !.spawn_delay = spawn_delay_of(g)]

\* Lines 626-653 on the game's fields.
progressed(g) ==
    set_spawn_delay(ramp(survival_score(extra_life(advance(begin_frame(g))))))

\* The game after lines 626-653, and in the history what the collision
\* tests of this tick will find.
with_progress(w, g) ==
    [w EXCEPT !.g = g,
              !.l.updated = TRUE,
              !.l.inv_at_check = g.ship.invulnerable,
              !.l.lives_at_check = g.extra_lives,
              !.l.withheld =
                  (g.distance >= g.last_life_distance + EXTRA_LIFE_DISTANCE)]

\* Lines 626-653.
progress(w) == with_progress(w, progressed(w.g))

\* spawn_due with ">" for ">=".
spawn_due_strict(g) ==
    (g.spawn_timer + 1) * 100 * g.spawn_delay.den > g.spawn_delay.num

\* self.spawn_timer >= self.spawn_delay, after the increment of line 656.
spawn_due(g) ==
    (g.spawn_timer + 1) * 100 * g.spawn_delay.den >= g.spawn_delay.num

NoDraw == [spawn |-> FALSE, y |-> 0, radius |-> 0]

\* Lines 655-668.
spawn_objects(w, od, bd, pd) ==
    LET x0 == SCREEN_WIDTH * MilliPixel
        g == w.g
        g1 == IF spawn_due(g)
              THEN [g EXCEPT !.obstacles =
                        Append(@, Entity(x0, od.y, od.radius, g.obstacle_speed)),
                             !.spawn_timer = 0]
              ELSE [g EXCEPT !.spawn_timer = @ + 1]
        g2 == IF bd.spawn
              THEN [g1 EXCEPT !.black_holes =
                        Append(@, Entity(x0, bd.y, BlackHoleRadius, g.obstacle_speed))]
              ELSE g1
        g3 == IF pd.spawn
              THEN [g2 EXCEPT !.portals =
                        Append(@, Entity(x0, pd.y, PortalRadius, g.obstacle_speed))]
              ELSE g2
    IN  [w EXCEPT !.g = g3,
                  !.l.events = @ + (IF bd.spawn THEN 1 ELSE 0)
                                 + (IF pd.spawn THEN 1 ELSE 0)]

\* handle_collision without "self.ship.set_invulnerable(120)".
handle_collision_without_grace(w, io) ==
    LET w1 == [w EXCEPT !.l.collisions =
                   Append(@, [lives |-> w.g.extra_lives,
                              invulnerable |-> w.g.ship.invulnerable])]
    IN  IF w.g.extra_lives > 0
        THEN [w1 EXCEPT
                !.g.extra_lives = @ - 1,
                !.g.hud.milestone_text = <<"Life Lost!", w.g.extra_lives - 1>>,
                !.g.hud.milestone_timer = 120,
                !.l.loss_frame = w.g.frame_count]
        ELSE add_score([w1 EXCEPT !.g.state = GAME_OVER,
                                  !.l.ended = @ + (IF w.g.state = GAME_OVER
                                                   THEN 0 ELSE 1)],
                       w.g.score, w.g.distance, w.g.selected_color, io)

\* handle_collision without the test of self.extra_lives: every collision
\* ends the run.
handle_collision_always_fatal(w, io) ==
    add_score([w EXCEPT !.l.collisions =
                            Append(@, [lives |-> w.g.extra_lives,
                                       invulnerable |-> w.g.ship.invulnerable]),
                        !.g.state = GAME_OVER,
                        !.l.ended = @ + (IF w.g.state = GAME_OVER THEN 0 ELSE 1)],
              w.g.score, w.g.distance, w.g.selected_color, io)

\* handle_collision with a grace period one frame short.
handle_collision_short_grace(w, io) ==
    LET w1 == [w EXCEPT !.l.collisions =
                   Append(@, [lives |-> w.g.extra_lives,
                              invulnerable |-> w.g.ship.invulnerable])]
    IN  IF w.g.extra_lives > 0
        THEN [w1 EXCEPT
                !.g.extra_lives = @ - 1,
                !.g.ship = set_invulnerable(@, InvulnerableFrames - 1),
                !.g.hud.milestone_text = <<"Life Lost!", w.g.extra_lives - 1>>,
                !.g.hud.milestone_timer = 120,
                !.l.loss_frame = w.g.frame_count]
        ELSE add_score([w1 EXCEPT !.g.state = GAME_OVER,
                                  !.l.ended = @ + (IF w.g.state = GAME_OVER
                                                   THEN 0 ELSE 1)],
                       w.g.score, w.g.distance, w.g.selected_color, io)

\* Game.handle_collision
handle_collision(w, io) ==
    LET w1 == [w EXCEPT !.l.collisions =
                   Append(@, [lives |-> w.g.extra_lives,
                              invulnerable |-> w.g.ship.invulnerable])]
    IN  IF w.g.extra_lives > 0
        THEN [w1 EXCEPT
                !.g.extra_lives = @ - 1,
                !.g.ship = set_invulnerable(@, InvulnerableFrames),
                !.g.hud.milestone_text = <<"Life Lost!", w.g.extra_lives - 1>>,
                !.g.hud.milestone_timer = 120,
                !.l.loss_frame = w.g.frame_count]
        ELSE add_score([w1 EXCEPT !.g.state = GAME_OVER,
                                  !.l.ended = @ + (IF w.g.state = GAME_OVER
                                                   THEN 0 ELSE 1)],
                       w.g.score, w.g.distance, w.g.selected_color, io)

RemoveAt(s, i) == SubSeq(s, 1, i - 1) \o SubSeq(s, i + 1, Len(s))

\* The test of lines 680 and 691 without "not self.ship.invulnerable".
hits_ignoring_invulnerability(w, e) ==
    colliderect(ship_rect(w.g.ship), entity_rect(e))

\* The test of lines 680 and 691.
hits(w, e) ==
    /\ ~w.g.ship.invulnerable
    /\ colliderect(ship_rect(w.g.ship), entity_rect(e))

\* hazard_moved without "self.score += 1" and "self.score += 5".
hazard_moved_unscored(w, kind, i, e, bonus) ==
    IF is_off_screen(e)
    THEN [w EXCEPT !.g[kind] = RemoveAt(@, i),
                   !.l.reaped = @ + 1]
    ELSE [w EXCEPT !.g[kind][i] = e]

\* The body of the loops of lines 673-681 and 684-692 for the entity at
\* index i of list kind ("obstacles", "black_holes"), worth bonus points
\* when it leaves the screen.  Returns the state and whether the entity
\* was removed.
hazard_moved(w, kind, i, e, bonus) ==
    IF is_off_screen(e)
    THEN [w EXCEPT !.g[kind] = RemoveAt(@, i),
                   !.g.score = @ + bonus,
                   !.l.reaped = @ + 1]
    ELSE [w EXCEPT !.g[kind][i] = e]

\* The history counts an overlap that the invulnerable ship passes through.
note_overlap(w, e) ==
    [w EXCEPT !.l.ignored =
        @ + (IF /\ colliderect(ship_rect(w.g.ship), entity_rect(e))
                /\ w.g.ship.invulnerable
             THEN 1 ELSE 0)]

hazard_collision(w, e, io) ==
    IF hits(w, e) THEN handle_collision(w, io) ELSE w

hazard_step(w, kind, i, bonus, io) ==
    LET e == entity_update(w.g[kind][i], w.g.current_speed, w.g.obstacle_speed)
    IN  [w |-> hazard_collision(note_overlap(hazard_moved(w, kind, i, e, bonus), e),
                                e, io),
         removed |-> is_off_screen(e)]

RECURSIVE update_hazards(_, _, _, _, _)

\* The loop goes on after the step r for index i.
after_hazard(r, kind, i, bonus, io) ==
    update_hazards(r.w, kind, IF r.removed THEN i ELSE i + 1, bonus, io)

update_hazards(w, kind, i, bonus, io) ==
    IF i > Len(w.g[kind]) THEN w
    ELSE after_hazard(hazard_step(w, kind, i, bonus, io), kind, i, bonus, io)

\* Lines 672-692.
update_obstacles_and_black_holes(w, io) ==
    update_hazards(update_hazards(w, "obstacles", 1, 1, io),
                   "black_holes", 1, 5, io)

\* teleport_player with "-=" for "+=".
teleport_player_backwards(w, teleport_km) ==
    LET px == w.g.pixels_traveled - (teleport_km * KmPerUnit) \div KmPerMilliPixel
    IN  [w EXCEPT !.g.pixels_traveled = px,
                  !.g.distance = DistanceOf(px),
                  !.g.hud.milestone_text = <<"Portal Jump!", teleport_km>>,
                  !.g.hud.milestone_timer = 120,
                  !.l.teleports = Append(@, teleport_km)]

\* Game.teleport_player; teleport_km is the random.choice.
teleport_player(w, teleport_km) ==
    LET px == w.g.pixels_traveled + (teleport_km * KmPerUnit) \div KmPerMilliPixel
    IN  [w EXCEPT !.g.pixels_traveled = px,
                  !.g.distance = DistanceOf(px),
                  !.g.hud.milestone_text = <<"Portal Jump!", teleport_km>>,
                  !.g.hud.milestone_timer = 120,
                  !.l.teleports = Append(@, teleport_km)]

\* The body of the loop of lines 695-704 for the portal at index i; td is
\* the sequence of teleport choices not yet used.  A portal that is both
\* off screen and overlapping would be removed twice: list.remove raises.
portal_moved(w, i, e) ==
    IF is_off_screen(e)
    THEN [w EXCEPT !.g.portals = RemoveAt(@, i), !.l.reaped = @ + 1]
    ELSE [w EXCEPT !.g.portals[i] = e]

\* portal_collected without "self.score += 10".
portal_collected_without_score(w, i, off) ==
    IF off THEN [w EXCEPT !.l.crashed = TRUE]
    ELSE [w EXCEPT !.g.portals = RemoveAt(@, i)]

\* Lines 701-704, for a portal the ship overlaps.
portal_collected(w, i, off) ==
    IF off THEN [w EXCEPT !.l.crashed = TRUE]
    ELSE [w EXCEPT !.g.portals = RemoveAt(@, i), !.g.score = @ + 10]

portal_step(w, i, td) ==
    LET e == entity_update(w.g.portals[i], w.g.current_speed, w.g.obstacle_speed)
        off == is_off_screen(e)
        over == colliderect(ship_rect(w.g.ship), entity_rect(e))
    IN  [w |-> IF over
               THEN portal_collected(teleport_player(portal_moved(w, i, e), Head(td)),
                                     i, off)
               ELSE portal_moved(w, i, e),
         removed |-> off \/ over,
         td |-> IF over THEN Tail(td) ELSE td]

RECURSIVE update_portals(_, _, _)

\* The loop goes on after the step r for index i.
after_portal(r, i) ==
    update_portals(r.w, IF r.removed THEN i ELSE i + 1, r.td)

update_portals(w, i, td) ==
    IF i > Len(w.g.portals) \/ w.l.crashed THEN w
    ELSE after_portal(portal_step(w, i, td), i)

\* Lines 707-710.
RECURSIVE update_planets(_, _)
update_planets(w, i) ==
    IF i > Len(w.g.planets) THEN w
    ELSE LET e == planet_update(w.g.planets[i], w.g.current_speed,
                                w.g.obstacle_speed)
         IN  IF planet_is_off_screen(e)
             THEN update_planets([w EXCEPT !.g.planets = RemoveAt(@, i),
                                           !.l.reaped = @ + 1], i)
             ELSE update_planets([w EXCEPT !.g.planets[i] = e], i + 1)

\* HUD.show_milestone
show_milestone(w, name, distance, is_galaxy) ==
    [w EXCEPT !.g.hud.milestone_text =
                  IF is_galaxy THEN <<"Entering", name>>
                  ELSE <<"You passed", name, distance>>,
              !.g.hud.milestone_timer = 180]

\* generate_procedural_milestone without the step added to
\* next_procedural_distance.
generate_procedural_milestone_in_place(w, md) ==
    [w EXCEPT
        !.g.procedural_milestones =
            Append(@, [name |-> md.name,
                       distance |-> w.g.next_procedural_distance,
                       is_galaxy |-> md.is_galaxy]),
        !.l.generated = Append(@, w.g.next_procedural_distance)]

\* Game.generate_procedural_milestone; md holds the random name, category
\* and step.
generate_procedural_milestone(w, md) ==
    [w EXCEPT
        !.g.procedural_milestones =
            Append(@, [name |-> md.name,
                       distance |-> w.g.next_procedural_distance,
                       is_galaxy |-> md.is_galaxy]),
        !.g.next_procedural_distance = @ + md.step,
        !.l.generated = Append(@, w.g.next_procedural_distance)]

\* int(planet_distance * 0.9), as the least distance unit at or above it.
approach_distance(planet_distance) == (planet_distance * 9 + 9) \div 10

\* Lines 717-721: the planet of milestone i comes into view.
planet_approach(w, i, m, md) ==
    IF w.g.distance >= approach_distance(m.distance) /\ ~w.g.planet_shown[i]
    THEN [w EXCEPT
            !.g.planets =
                Append(@, Entity((SCREEN_WIDTH + m.radius) * MilliPixel,
                                 md.planet_y, m.radius, 0)),
            !.g.planet_shown[i] = TRUE]
    ELSE w

\* Lines 724-726 without "self.milestone_index += 1".
planet_passed_keeping_cursor(w, m) ==
    [show_milestone(w, m.name, m.distance, FALSE) EXCEPT
        !.g.last_planet_passed = m.name,
        !.l.fixed_events = Append(@, m.name),
        !.l.fired = Append(@, m.name)]

\* Lines 724-726.
planet_passed(w, m) ==
    [show_milestone(w, m.name, m.distance, FALSE) EXCEPT
        !.g.last_planet_passed = m.name,
        !.g.milestone_index = @ + 1,
        !.l.fixed_events = Append(@, m.name),
        !.l.fired = Append(@, m.name)]

\* leave_solar_system without "self.passed_neptune = True".
leave_solar_system_unmarked(w, md) ==
    generate_procedural_milestone(
        [w EXCEPT !.g.hud.milestone_text = <<"Leaving our solar system!">>,
                  !.g.hud.milestone_timer = 240], md)

\* Lines 728-732.
leave_solar_system(w, md) ==
    generate_procedural_milestone(
        [w EXCEPT !.g.passed_neptune = TRUE,
                  !.g.hud.milestone_text = <<"Leaving our solar system!">>,
                  !.g.hud.milestone_timer = 240], md)

\* Lines 723-732.
planet_reached(w, m, md) ==
    IF w.g.distance < m.distance THEN w
    ELSE IF m.name = "Neptune" THEN leave_solar_system(planet_passed(w, m), md)
    ELSE planet_passed(w, m)

\* Lines 713-732: the fixed milestones.
fixed_milestones(w, md) ==
    LET i == w.g.milestone_index + 1
        m == PLANET_MILESTONES[i]
    IN  planet_reached(planet_approach(w, i, m, md), m, md)

\* consume_procedural without "self.procedural_milestones[i] = (name, -1,
\* is_galaxy)".
RECURSIVE consume_procedural_unmarked(_, _)
consume_procedural_unmarked(w, i) ==
    IF i > Len(w.g.procedural_milestones) THEN w
    ELSE LET e == w.g.procedural_milestones[i]
         IN  IF w.g.distance >= e.distance /\ e.distance > 0
             THEN consume_procedural_unmarked(
                     [show_milestone(w, e.name, e.distance, e.is_galaxy) EXCEPT
                         !.g.last_planet_passed = e.name,
                         !.l.proc_events = Append(@, e.distance)], i + 1)
             ELSE consume_procedural_unmarked(w, i + 1)

\* The loop of lines 738-742.
RECURSIVE consume_procedural(_, _)
consume_procedural(w, i) ==
    IF i > Len(w.g.procedural_milestones) THEN w
    ELSE LET e == w.g.procedural_milestones[i]
         IN  IF w.g.distance >= e.distance /\ e.distance > 0
             THEN consume_procedural(
                     [show_milestone(w, e.name, e.distance, e.is_galaxy) EXCEPT
                         !.g.last_planet_passed = e.name,
                         !.g.procedural_milestones[i].distance = -1,
                         !.l.proc_events = Append(@, e.distance)], i + 1)
             ELSE consume_procedural(w, i + 1)

\* procedural_due without "or self.distance >=
\* self.procedural_milestones[-1][1]".
procedural_due_when_empty(g) == g.procedural_milestones = << >>

\* Whether line 735 asks for a new procedural milestone.
procedural_due(g) ==
    \/ g.procedural_milestones = << >>
    \/ g.distance >=
         g.procedural_milestones[Len(g.procedural_milestones)].distance

\* Lines 734-742: the procedural milestones.
procedural_milestones_step(w, md) ==
    consume_procedural(IF procedural_due(w.g)
                       THEN generate_procedural_milestone(w, md) ELSE w, 1)

\* Lines 712-742.
milestones(w, md) ==
    IF w.g.milestone_index < Len(PLANET_MILESTONES) THEN fixed_milestones(w, md)
    ELSE IF w.g.passed_neptune THEN procedural_milestones_step(w, md)
    ELSE w

\* Lines 670-742, after the spawns.
planets_and_milestones(w, md) ==
    IF w.l.crashed THEN w ELSE milestones(update_planets(w, 1), md)

update_entities(w, io, td, md) ==
    planets_and_milestones(
        update_portals(update_obstacles_and_black_holes(w, io), 1, td), md)

\* Game.update_game for a RUNNING game.
update_game(w, od, bd, pd, io, td, md) ==
    IF w.g.state # RUNNING THEN w
    ELSE update_entities(spawn_objects(progress(w), od, bd, pd), io, td, md)

\* The loop of lines 761-765: the first procedural milestone at or after
\* index i that is unconsumed and ahead, or the sentinel.
RECURSIVE next_procedural(_, _)
next_procedural(g, i) ==
    IF i > Len(g.procedural_milestones)
    THEN [name |-> "Deep Space", distance_to_planet |-> 0]
    ELSE IF /\ g.procedural_milestones[i].distance > 0
            /\ g.distance < g.procedural_milestones[i].distance
         THEN [name |-> g.procedural_milestones[i].name,
               distance_to_planet |->
                   g.procedural_milestones[i].distance - g.distance]
         ELSE next_procedural(g, i + 1)

\* Game.get_next_planet_info
get_next_planet_info(g) ==
    IF g.milestone_index < Len(PLANET_MILESTONES)
    THEN [name |-> PLANET_MILESTONES[g.milestone_index + 1].name,
          distance_to_planet |->
              PLANET_MILESTONES[g.milestone_index + 1].distance - g.distance]
    ELSE next_procedural(g, 1)

\* The state changes of Game.draw: draw_launch_animation places the ship,
\* draw_game (also called by draw_paused) counts the toast down.
draw(w) ==
    CASE w.g.state = LAUNCH_ANIMATION ->
            [w EXCEPT !.g.ship.y =
                IntTrunc((SCREEN_HEIGHT \div 2) * 1000 - w.g.launch_timer * 1500)]
      [] w.g.state \in {RUNNING, PAUSED} ->
            [w EXCEPT !.g.hud.milestone_timer = IF @ > 0 THEN @ - 1 ELSE @]
      [] OTHER -> w

-----------------------------------------------------------------------------
(* One iteration of the loop of Game.run.                                  *)

\* Lines 1036-1042: a QUIT event, or an ESCAPE key press in GAME_OVER or
\* MENU, ends the loop after this iteration.
keeps_running(state, event) ==
    ~ \/ event = "QUIT"
      \/ event = "KEYDOWN_ESCAPE" /\ state \in {GAME_OVER, MENU}

\* The history at the start of an iteration: during a run it counts the
\* iteration, and until the run is left a change of the held keys.
track_input(w, keys) ==
    LET in_run == w.g.state \in {RUNNING, PAUSED}
        tracked == in_run \/ w.g.state = GAME_OVER
    IN  [w EXCEPT !.l = [NewTickLog(@) EXCEPT
            !.pre = [state |-> w.g.state,
                     milestone_index |-> w.g.milestone_index],
            !.ticks = @ + (IF in_run THEN 1 ELSE 0),
            !.events = @ + (IF tracked /\ keys # w.l.keys THEN 1 ELSE 0),
            !.keys = IF tracked THEN keys ELSE {}]]

\* Lines 1044-1051.
\* Lines 1046-1049.
update(w, od, bd, pd, io, td, md) ==
    IF w.g.state = LAUNCH_ANIMATION THEN update_launch_animation(w)
    ELSE update_game(w, od, bd, pd, io, td, md)

\* Line 1051; an exception raised by the update ends the program first.
draw_unless_crashed(w) == IF w.l.crashed THEN w ELSE draw(w)

\* Lines 1044-1051.
iteration(w, keys, od, bd, pd, io, td, md) ==
    draw_unless_crashed(
        update(handle_input(track_input(w, keys), keys), od, bd, pd, io, td, md))

World == [g |-> game, l |-> log, disk |-> disk]

-----------------------------------------------------------------------------
(* Scripted play.  A script is a sequence of segments; a segment plays n   *)
(* iterations with the same keys held and the same random draws: a black   *)
(* hole (bh) or portal (portal) spawned at the given y in each of them     *)
(* (0: none), every collected portal teleporting by tele.  Obstacles that  *)
(* fall due are spawned at the top of their range with the largest         *)
(* radius, and the leaderboard write succeeds.                             *)

Segment(n, keys, bh, portal, tele) ==
    [n |-> n, keys |-> keys, bh |-> bh, portal |-> portal, tele |-> tele]

ScriptObstacle == [spawn |-> TRUE, y |-> 50, radius |-> 35]
ScriptMilestone ==
    [planet_y |-> 300, name |-> "Zeta-Prime", is_galaxy |-> FALSE,
     step |-> 300000000 \div KmPerUnit]

script_iteration(w, seg) ==
    iteration(w, seg.keys, ScriptObstacle,
              [spawn |-> seg.bh > 0, y |-> seg.bh, radius |-> BlackHoleRadius],
              [spawn |-> seg.portal > 0, y |-> seg.portal, radius |-> PortalRadius],
              TRUE, <<seg.tele, seg.tele, seg.tele, seg.tele, seg.tele, seg.tele>>,
              ScriptMilestone)

\* n iterations of one segment (halved, to keep the evaluation shallow);
\* nothing runs after a crash.
RECURSIVE ReplaySegment(_, _, _)
ReplaySegment(w, seg, n) ==
    IF n = 0 THEN w
    ELSE IF n = 1 THEN script_iteration(w, seg)
    ELSE LET half == ReplaySegment(w, seg, n \div 2)
         IN  IF half.l.crashed THEN half
             ELSE ReplaySegment(half, seg, n - n \div 2)

\* Segments lo..hi of a script (halved likewise).
RECURSIVE ReplayFrom(_, _, _, _)
ReplayFrom(w, script, lo, hi) ==
    IF lo > hi \/ w.l.crashed THEN w
    ELSE IF lo = hi THEN ReplaySegment(w, script[lo], script[lo].n)
    ELSE ReplayFrom(ReplayFrom(w, script, lo, (lo + hi) \div 2),
                    script, (lo + hi) \div 2 + 1, hi)

Replay(w, script) == ReplayFrom(w, script, 1, Len(script))

\* The program right after construction, with the given scores on disk.
Constructed(saved) == [g |-> NewGame(saved), l |-> NewLog, disk |-> saved]

-----------------------------------------------------------------------------
(* Bounds and the inputs of one iteration.                                 *)

MaxTicks == 4    \* iterations of a run (RUNNING or PAUSED) explored after Init
MaxEvents == 2   \* changes of the held keys in RUNNING, PAUSED and GAME_OVER,
                 \* and random spawns of black holes and portals, after Init

MenuKeys == {{}, {"SPACE"}, {"l"}, {"SPACE", "l"}, {"ESCAPE"}}
LeaderboardKeys == {{}, {"ESCAPE"}, {"SPACE"}, {"l"}}
ColorKeys == {{}, {"1"}, {"4"}, {"1", "4"}, {"r"}}
LaunchKeys == {{}, {"p"}}
RunKeys == {{}, {"RIGHT"}, {"p"}, {"UP"}, {"s"}, {"UP", "DOWN"}}
GameOverKeys == {{}, {"r"}, {"l"}, {"r", "l"}, {"ESCAPE"}}

\* Keys held and the event delivered in one iteration.
Inputs(keysets) ==
    { [keys |-> k, event |-> "none"] : k \in keysets }
        \cup { [keys |-> {}, event |-> "QUIT"],
               [keys |-> {"ESCAPE"}, event |-> "KEYDOWN_ESCAPE"] }

\* random.randint(50, SCREEN_HEIGHT - 50) and random.randint(15, 35).  An
\* obstacle spawned in the iterations explored from Init is still right of
\* the ship when they end, so one height and one radius stand for the
\* ranges.
ObstacleYs == {50}
ObstacleRadii == {35}
\* random.randint(80, SCREEN_HEIGHT - 80), random.randint(70, SCREEN_HEIGHT - 70).
\* A black hole or portal spawned in the iterations explored from Init is
\* still right of the ship when they end, so one height stands for the
\* range; the initial worlds place them at both ends of it.
BlackHoleYs == {80}
PortalYs == {70}
\* random.randint(300_000_000, 800_000_000) and the two kinds of name.
ProceduralDraws ==
    { [name |-> "Zeta-Prime", is_galaxy |-> FALSE,
       step |-> 300000000 \div KmPerUnit],
      [name |-> "Andromeda Cluster", is_galaxy |-> TRUE,
       step |-> 800000000 \div KmPerUnit] }

ObstacleDraws(w) ==
    IF spawn_due(w.g)
    THEN { [spawn |-> TRUE, y |-> y, radius |-> r] :
              y \in ObstacleYs, r \in ObstacleRadii }
    ELSE {NoDraw}

RandomSpawnDraws(w, used, ys, radius) ==
    {NoDraw} \cup
        IF w.l.events + used < MaxEvents
        THEN { [spawn |-> TRUE, y |-> y, radius |-> radius] : y \in ys }
        ELSE {}

\* The portals the ship overlaps after they move: one teleport choice each.
CollectedPortals(w) ==
    { i \in 1..Len(w.g.portals) :
        colliderect(ship_rect(w.g.ship),
                    entity_rect(entity_update(w.g.portals[i], w.g.current_speed,
                                              w.g.obstacle_speed))) }

\* random.choice(teleport_options): the smallest and the largest jump.
TeleportChoices == {NearJump, FarJump}

TeleportDraws(w) == [1..Cardinality(CollectedPortals(w)) -> TeleportChoices]

\* Whether the milestone step generates a procedural milestone.
generation_due(g) ==
    IF g.milestone_index < Len(PLANET_MILESTONES)
    THEN /\ g.milestone_index = Len(PLANET_MILESTONES) - 1
         /\ g.distance >= PLANET_MILESTONES[Len(PLANET_MILESTONES)].distance
    ELSE g.passed_neptune /\ procedural_due(g)

MilestoneDraws(w) ==
    IF generation_due(w.g)
    THEN { [planet_y |-> 300, name |-> n.name, is_galaxy |-> n.is_galaxy,
            step |-> n.step] : n \in ProceduralDraws }
    ELSE {ScriptMilestone}

Draw(od, bd, pd, io, td, md) ==
    [od |-> od, bd |-> bd, pd |-> pd, io |-> io, td |-> td, md |-> md]

\* The random draws update_game can make in the world w, which is the
\* world after handle_input.
\* h is the world after the obstacles and black holes have moved.
DrawsAfterHazards(h, od, bd, pd) ==
    UNION { { Draw(od, bd, pd, io, td, md) :
                io \in (IF h.l.add_calls # << >> THEN BOOLEAN ELSE {TRUE}),
                md \in MilestoneDraws(update_portals(h, 1, td)) } :
            td \in TeleportDraws(h) }

DrawsAfterSpawn(w, od, bd, pd) ==
    DrawsAfterHazards(
        update_obstacles_and_black_holes(spawn_objects(w, od, bd, pd), TRUE),
        od, bd, pd)

\* p is the world after lines 626-653.
DrawsAfterProgress(p) ==
    UNION { UNION { DrawsAfterSpawn(p, od, bd, pd) :
                      od \in ObstacleDraws(p),
                      pd \in RandomSpawnDraws(p, IF bd.spawn THEN 1 ELSE 0,
                                              PortalYs, PortalRadius) } :
               bd \in RandomSpawnDraws(p, 0, BlackHoleYs, BlackHoleRadius) }

Draws(w) ==
    IF w.g.state # RUNNING
    THEN {Draw(NoDraw, NoDraw, NoDraw, TRUE, << >>, ScriptMilestone)}
    ELSE DrawsAfterProgress(progress(w))

-----------------------------------------------------------------------------
(* The actions: one iteration of Game.run, by the state it starts in.      *)

Commit(w, event) ==
    /\ game' = w.g
    /\ log' = w.l
    /\ disk' = w.disk
    /\ running' = (keeps_running(game.state, event) /\ ~w.l.crashed)
    /\ UNCHANGED <<twin, probe>>

Iterate(in) ==
    \E d \in Draws(handle_input(track_input(World, in.keys), in.keys)) :
        Commit(iteration(World, in.keys, d.od, d.bd, d.pd, d.io, d.td, d.md),
               in.event)

TickMenu ==
    /\ running /\ game.state = MENU
    /\ \E in \in Inputs(MenuKeys) : Iterate(in)

TickLeaderboard ==
    /\ running /\ game.state = LEADERBOARD
    /\ \E in \in Inputs(LeaderboardKeys) : Iterate(in)

TickColorSelect ==
    /\ running /\ game.state = COLOR_SELECT
    /\ \E in \in Inputs(ColorKeys) : Iterate(in)

TickLaunch ==
    /\ running /\ game.state = LAUNCH_ANIMATION
    /\ \E in \in Inputs(LaunchKeys) : Iterate(in)

TickRunning ==
    /\ running /\ game.state = RUNNING
    /\ log.ticks < MaxTicks
    /\ \E in \in Inputs(RunKeys) :
          /\ in.keys # log.keys => log.events < MaxEvents
          /\ Iterate(in)

TickPaused ==
    /\ running /\ game.state = PAUSED
    /\ log.ticks < MaxTicks
    /\ \E in \in Inputs(RunKeys) :
          /\ in.keys # log.keys => log.events < MaxEvents
          /\ Iterate(in)

TickGameOver ==
    /\ running /\ game.state = GAME_OVER
    /\ \E in \in Inputs(GameOverKeys) :
          /\ in.keys # log.keys => log.events < MaxEvents
          /\ Iterate(in)

Next ==
    \/ TickMenu
    \/ TickLeaderboard
    \/ TickColorSelect
    \/ TickLaunch
    \/ TickRunning
    \/ TickPaused
    \/ TickGameOver

-----------------------------------------------------------------------------
(* Initial states: the program right after construction, and runs already  *)
(* under way, each the outcome of a scripted play from construction.       *)

SavedScores == { << >>, <<ScoreEntry(7, 9003, "red")>> }

Still(n, tele) == Segment(n, {}, 0, 0, tele)

\* MENU -> COLOR_SELECT -> LAUNCH_ANIMATION -> RUNNING with frame_count 0.
Launch ==
    << Segment(1, {"SPACE"}, 0, 0, NearJump), Segment(1, {"3"}, 0, 0, NearJump),
       Still(LaunchDuration - 1, NearJump) >>

\* Frame 289 of a run without spare lives: the obstacle and the portal of
\* frame 90 and the black hole of frame 92 reach the ship at frame 292.
NoLivesLeft ==
    Replay(Constructed(<< >>),
           Launch \o << Still(89, NearJump), Segment(1, {}, 0, 70, NearJump),
                        Still(1, NearJump), Segment(1, {}, 80, 0, NearJump),
                        Still(197, NearJump) >>)

\* Frame 289 of a run with one spare life, won by the far jump of frame
\* 209: the obstacle of frame 90 and the black hole of frame 92 reach the
\* ship at frame 292.
OneLifeLeft ==
    Replay(Constructed(<<ScoreEntry(7, 9003, "red")>>),
           Launch \o << Segment(1, {}, 0, 70, FarJump), Still(90, FarJump),
                        Segment(1, {}, 80, 0, FarJump), Still(197, FarJump) >>)

\* Frame 208 of a run that collected five far jumps at once in the boosted
\* frame 206 and has one spare life: Saturn has just been passed, Uranus
\* falls due at frame 209 and Neptune at frame 210.
OuterPlanets ==
    Replay(Constructed(<< >>),
           Launch \o << Segment(5, {}, 0, 70, FarJump), Still(200, FarJump),
                        Segment(1, {"RIGHT"}, 0, 0, FarJump), Still(2, FarJump) >>)

\* Frame 214 of a run that collected four far jumps, at frames 209, 211,
\* 213 and 214, and holds three spare lives, the last granted in frame 214:
\* the life check of frame 215 finds the next mark crossed, the black hole
\* of frame 11 reaches the ship at frame 216 and the portal of frame 10 at
\* frame 217.
LivesAtCap ==
    Replay(Constructed(<< >>),
           Launch \o << Segment(1, {}, 0, 70, FarJump), Still(1, FarJump),
                        Segment(1, {}, 0, 70, FarJump), Still(1, FarJump),
                        Segment(1, {}, 0, 70, FarJump), Still(1, FarJump),
                        Segment(1, {}, 0, 70, FarJump), Still(2, FarJump),
                        Segment(1, {}, 0, 70, FarJump),
                        Segment(1, {}, 80, 0, FarJump), Still(203, FarJump) >>)

\* Frame 1372 of a run in which the ship moved down for the first 12
\* frames, to pass below the obstacles, and collected the seven portals of
\* frames 1195-1201 as far jumps in frames 1344-1350: it holds three spare
\* lives, the multiplier is 3.0 and the spawn delay is at its minimum.
\* Mars leaves the screen in frame 1373, the black hole of frame 1175 and
\* the portal of frame 1176 in frame 1376, and an obstacle in frame 1377;
\* the portal of frame 1227 reaches the ship in frame 1374, in the
\* procedural phase.
EntitiesLeaving ==
    Replay(Constructed(<< >>),
           Launch \o << Segment(12, {"s"}, 0, 0, FarJump), Still(1162, FarJump),
                        Segment(1, {}, 520, 0, FarJump),
                        Segment(1, {}, 0, 530, FarJump), Still(18, FarJump),
                        Segment(7, {}, 0, 70, FarJump), Still(25, FarJump),
                        Segment(1, {}, 0, 70, FarJump), Still(145, FarJump) >>)

\* Frame 88 of a run in which nothing has been spawned yet: the first
\* obstacle falls due in frame 90, 90 iterations after the reset.  The
\* ship has been steered to the upper edge of its band.
FirstObstacleDue ==
    Replay(Constructed(<< >>),
           Launch \o << Segment(5, {"UP"}, 0, 0, NearJump),
                        Still(83, NearJump) >>)

\* The bound counters count from Init.
Fresh(w) ==
    [w EXCEPT !.l.ticks = 0, !.l.events = 0]

InitWorlds ==
    { Constructed(saved) : saved \in SavedScores }
        \cup {NoLivesLeft, OneLifeLeft, OuterPlanets, LivesAtCap,
              EntitiesLeaving, FirstObstacleDue}

Idle == [dummy |-> 0]

Init ==
    /\ \E w \in InitWorlds :
          /\ game = w.g
          /\ log = Fresh(w).l
          /\ disk = w.disk
    /\ running = TRUE
    /\ twin = Idle
    /\ probe = Idle

Spec == Init /\ [][Next]_vars

-----------------------------------------------------------------------------
(* The difficulty multiplier as a function: probe holds two distances      *)
(* lo <= hi, the unit they are measured in and the multiplier of each.     *)

MaxHalfSegments == 30   \* distances probed, in halves of a difficulty segment

FarUnit == 1000 * 1000  \* kilometres per unit of the far distances

Measure(unit, lo, hi) ==
    [unit |-> unit, lo |-> lo, hi |-> hi,
     m_lo |-> calculate_difficulty_multiplier(lo, unit),
     m_hi |-> calculate_difficulty_multiplier(hi, unit)]

\* Distances of the game (units of KmPerUnit) on and just below the halves
\* of the difficulty segments.
NearDistances ==
    { d \in { k * (DifficultySegmentKm \div (2 * KmPerUnit)) - j :
                k \in 0..MaxHalfSegments, j \in {0, 1} } : d >= 0 }

\* 0 km, 500,000,000 km, 7,000,000,000 km and 2,000,000,000,000 km.
FarDistances == {0, 500, 7000, 2000000}

\* The next measurement of a growing distance: the last one becomes lo.
MeasureNear ==
    /\ probe.unit = KmPerUnit
    /\ \E hi \in NearDistances :
          /\ probe.hi <= hi
          /\ probe' = Measure(KmPerUnit, probe.hi, hi)
    /\ UNCHANGED <<game, running, disk, log, twin>>

MeasureFar ==
    /\ \E lo \in FarDistances, hi \in FarDistances :
          /\ lo <= hi
          /\ probe' = Measure(FarUnit, lo, hi)
    /\ UNCHANGED <<game, running, disk, log, twin>>

InitDifficulty ==
    /\ game = NewGame(<< >>)
    /\ log = NewLog
    /\ disk = << >>
    /\ running = FALSE
    /\ twin = Idle
    /\ probe = Measure(KmPerUnit, 0, 0)

NextDifficulty ==
    \/ MeasureNear
    \/ MeasureFar

SpecDifficulty == InitDifficulty /\ [][NextDifficulty]_vars

-----------------------------------------------------------------------------
(* Boosting against not boosting: twin holds two copies of the progression *)
(* fields of one run, advanced tick by tick (lines 629-635 and 648-649),   *)
(* slow with is_boosting never set and fast with it always set.            *)

MaxTwinTicks == 25   \* ticks the two copies are advanced

Progression(g) ==
    [is_boosting |-> g.is_boosting, obstacle_speed |-> g.obstacle_speed,
     current_speed |-> g.current_speed, pixels_traveled |-> g.pixels_traveled,
     distance |-> g.distance]

\* A run that has not boosted for all but the last two frames of the ramp
\* of the base speed.
LateFrames ==
    (MAX_OBSTACLE_SPEED - INITIAL_OBSTACLE_SPEED) \div SPEED_INCREASE_RATE - 2

LateRun ==
    LET px == LateFrames * INITIAL_OBSTACLE_SPEED
                + (LateFrames * (LateFrames - 1) * SPEED_INCREASE_RATE) \div 2
    IN  [is_boosting |-> FALSE,
         obstacle_speed |-> INITIAL_OBSTACLE_SPEED + LateFrames * SPEED_INCREASE_RATE,
         current_speed |-> INITIAL_OBSTACLE_SPEED + (LateFrames - 1) * SPEED_INCREASE_RATE,
         pixels_traveled |-> px,
         distance |-> DistanceOf(px)]

TwinStarts ==
    { Progression(w.g) :
        w \in {Replay(Constructed(<< >>), Launch),
               NoLivesLeft, OneLifeLeft, OuterPlanets} } \cup {LateRun}

tick_progression(p, boosting) ==
    ramp(advance([p EXCEPT !.is_boosting = boosting]))

TwinTick ==
    /\ twin.n < MaxTwinTicks
    /\ twin' = [n |-> twin.n + 1,
                slow |-> tick_progression(twin.slow, FALSE),
                fast |-> tick_progression(twin.fast, TRUE)]
    /\ UNCHANGED <<game, running, disk, log, probe>>

InitBoost ==
    /\ game = NewGame(<< >>)
    /\ log = NewLog
    /\ disk = << >>
    /\ running = FALSE
    /\ probe = Idle
    /\ \E p \in TwinStarts : twin = [n |-> 0, slow |-> p, fast |-> p]

NextBoost == TwinTick

SpecBoost == InitBoost /\ [][NextBoost]_vars

-----------------------------------------------------------------------------
(* Properties.                                                             *)

\* C1: in every run Leaderboard.add_score is called exactly once: no run
\* hands over more than one score record, whatever number of obstacles and
\* black holes overlap the ship in the tick that ends it, and a run that
\* is in GAME_OVER has handed over exactly one.
C1_OneScoreRecordPerRun ==
    /\ log.run_adds <= 1
    /\ game.state = GAME_OVER => log.run_adds = 1 /\ log.ended >= 1

\* C2: the score and the distance passed to add_score are the score and
\* the distance the game holds when the tick that ended the run is over.
C2_RecordCarriesFinalValues ==
    \A i \in 1..Len(log.add_calls) :
        /\ log.add_calls[i].score = game.score
        /\ log.add_calls[i].distance_km = game.distance

\* An overlap of the ship with an obstacle or black hole in this tick.
Overlapped == log.collisions # << >> \/ log.ignored > 0

\* C3: a ship that is not invulnerable at the collision check and has
\* n > 0 spare lives, and overlaps an obstacle or black hole in a RUNNING
\* tick, ends the tick with n - 1 spare lives, an invulnerability timer of
\* 120 and the state still RUNNING.
C3_CollisionWithSpareLife ==
    (log.updated /\ ~log.inv_at_check /\ log.lives_at_check > 0 /\ Overlapped)
        => /\ game.extra_lives = log.lives_at_check - 1
           /\ game.ship.invulnerable
           /\ game.ship.invulnerable_timer = 120
           /\ game.state = RUNNING

C3_LifeLost ==
    /\ log.updated /\ ~log.inv_at_check /\ log.lives_at_check = 1
    /\ Len(log.collisions) = 1 /\ log.ignored > 0
    /\ game.extra_lives = 0 /\ game.state = RUNNING

\* C4: handle_collision is never called while the ship is invulnerable,
\* and in every RUNNING tick in which the ship is invulnerable at the
\* collision check it is not called at all: no spare life is lost and the
\* run does not end, whatever overlaps the ship.
C4_InvulnerableNeverCollides ==
    /\ \A i \in 1..Len(log.collisions) : ~log.collisions[i].invulnerable
    /\ (log.updated /\ log.inv_at_check)
        => /\ log.collisions = << >>
           /\ game.extra_lives = log.lives_at_check
           /\ game.state # GAME_OVER

C4_InvulnerableOverlap ==
    /\ log.updated /\ log.inv_at_check /\ log.ignored > 0
    /\ log.collisions = << >> /\ game.state = RUNNING

\* C5: the distance is never negative, and between two calls of reset_game
\* it never decreases from one iteration to the next, boosting or not and
\* with or without teleports.
C5_DistanceNeverDecreases ==
    /\ [](game.distance >= 0)
    /\ [][log'.run_no = log.run_no => game'.distance >= game.distance]_vars

C5_BoostedTeleport ==
    /\ log.updated /\ game.is_boosting /\ log.teleports # << >>
    /\ game.distance > 0

\* The fixed milestone the cursor pointed at when the tick began is due:
\* the distance has reached its threshold.
FixedDue ==
    /\ log.pre.milestone_index < Len(PLANET_MILESTONES)
    /\ game.distance >= PLANET_MILESTONES[log.pre.milestone_index + 1].distance

FixedMilestoneStep ==
    log.updated =>
        IF FixedDue
        THEN /\ log.fixed_events =
                    <<PLANET_MILESTONES[log.pre.milestone_index + 1].name>>
             /\ game.milestone_index = log.pre.milestone_index + 1
        ELSE /\ log.fixed_events = << >>
             /\ game.milestone_index = log.pre.milestone_index

FiredInTableOrder ==
    /\ Len(log.fired) = game.milestone_index
    /\ \A i \in 1..Len(log.fired) : log.fired[i] = PLANET_MILESTONES[i].name

\* C6: in a RUNNING tick whose distance is at or beyond the threshold of
\* the table entry under the cursor, exactly one fixed milestone is shown,
\* with that entry's name, and the cursor advances by one; in any other
\* tick none is shown.  The milestones shown in a run are the first
\* entries of the table, each once and in table order, and the cursor
\* never decreases between two calls of reset_game.
C6_FixedMilestonesOnceInOrder ==
    /\ [](FixedMilestoneStep /\ FiredInTableOrder)
    /\ [][log'.run_no = log.run_no =>
            game'.milestone_index >= game.milestone_index]_vars

C6_UranusPassed ==
    /\ log.updated /\ log.fixed_events = <<"Uranus">>
    /\ game.milestone_index = 5
    /\ game.distance >= PLANET_MILESTONES[6].distance

\* C7: the thresholds generate_procedural_milestone has appended in a run
\* are strictly increasing in the order of their generation, and the first
\* lies beyond the threshold of the last fixed milestone.
C7_ProceduralThresholdsIncrease ==
    /\ \A i \in 1..Len(log.generated) : \A j \in 1..Len(log.generated) :
          i < j => log.generated[i] < log.generated[j]
    /\ log.generated # << >> =>
          log.generated[1] > PLANET_MILESTONES[Len(PLANET_MILESTONES)].distance
    /\ Len(game.procedural_milestones) = Len(log.generated)

C7_TwoGenerated ==
    /\ Len(log.generated) >= 2
    /\ game.milestone_index = Len(PLANET_MILESTONES)

\* min(3.0, 1 + 0.15 * floor(km / 500,000,000)) in hundredths, for a
\* distance in units of unit kilometres.
ExpectedMultiplier(distance, unit) ==
    LET segment == DifficultySegmentKm \div unit
        segments == CHOOSE n \in 0..(MaxHalfSegments + 1) :
                        n * segment <= distance /\ distance < (n + 1) * segment
    IN  Min(300, 100 + 15 * segments)

\* C8: the difficulty multiplier is min(3.0, 1 + 0.15 * floor(distance /
\* 500,000,000)): it does not decrease as the distance grows, lies within
\* [1.0, 3.0], and is 1.0 at 0 km, 1.15 at 500,000,000 km and 3.0 at
\* 2,000,000,000,000 km.
C8_DifficultyMultiplier ==
    /\ probe.m_lo <= probe.m_hi
    /\ 100 <= probe.m_lo /\ probe.m_hi <= 300
    /\ probe.hi = 0 => probe.m_hi = 100
    /\ probe.unit = KmPerUnit =>
          /\ probe.m_hi = ExpectedMultiplier(probe.hi, KmPerUnit)
          /\ probe.hi = DifficultySegmentKm \div KmPerUnit => probe.m_hi = 115
    /\ probe.unit = FarUnit =>
          /\ probe.hi = 500 => probe.m_hi = 115
          /\ probe.hi = 2000000 => probe.m_hi = 300

C8_FarBeyondTheCap ==
    /\ probe.unit = FarUnit /\ probe.lo = 500 /\ probe.hi = 2000000
    /\ probe.m_lo = 115 /\ probe.m_hi = 300

\* C9: from the same state and without teleports, N ticks without boosting
\* leave a distance at most the distance N ticks with boosting leave, for
\* every N.
C9_BoostNeverSlower ==
    /\ twin.slow.distance <= twin.fast.distance
    /\ twin.slow.pixels_traveled <= twin.fast.pixels_traveled

C9_BoostAhead ==
    /\ twin.n >= 3
    /\ twin.slow.distance < twin.fast.distance
    /\ twin.slow.obstacle_speed = twin.fast.obstacle_speed

\* The values reset_game gives the core of a run.
CoreReset ==
    /\ game.distance = 0
    /\ game.extra_lives = 0
    /\ game.milestone_index = 0
    /\ game.procedural_milestones = << >>
    /\ game.obstacles = << >> /\ game.black_holes = << >>
    /\ game.portals = << >> /\ game.planets = << >>

\* C10: a run begins reset: while it is in LAUNCH_ANIMATION and when it
\* enters RUNNING (frame_count still 0), also after an earlier run has
\* ended in GAME_OVER, the distance, the spare lives and the milestone
\* cursor are 0 and the procedural queue and the obstacle, black hole,
\* portal and planet lists are empty.
C10_RestartResetsCore ==
    (\/ game.state = LAUNCH_ANIMATION
     \/ game.state = RUNNING /\ game.frame_count = 0)
        => CoreReset

C10_RestartedRunActive ==
    /\ log.ended >= 1 /\ log.run_no >= 2
    /\ game.state = RUNNING /\ game.frame_count = 0
    /\ CoreReset

\* The state a pause has to keep: distance, speeds, score, spare lives, the
\* ship with its invulnerability countdown, spawn timer, frame count, the
\* milestone cursor and queue, and every entity.
PauseCore(g) ==
    [ distance |-> g.distance, pixels_traveled |-> g.pixels_traveled,
      current_speed |-> g.current_speed, obstacle_speed |-> g.obstacle_speed,
      score |-> g.score, extra_lives |-> g.extra_lives,
      last_life_distance |-> g.last_life_distance, ship |-> g.ship,
      spawn_timer |-> g.spawn_timer, spawn_delay |-> g.spawn_delay,
      frame_count |-> g.frame_count,
      milestone_index |-> g.milestone_index, planet_shown |-> g.planet_shown,
      passed_neptune |-> g.passed_neptune,
      procedural_milestones |-> g.procedural_milestones,
      next_procedural_distance |-> g.next_procedural_distance,
      obstacles |-> g.obstacles, black_holes |-> g.black_holes,
      portals |-> g.portals, planets |-> g.planets ]

\* One iteration of Game.run seen as a pause step: p held in RUNNING gives
\* PAUSED without an update, and nothing but the ship's own move of that
\* iteration changes; an iteration in PAUSED without p stays PAUSED and
\* changes nothing; p held in PAUSED resumes, and the update of that very
\* iteration is the next frame of the values the pause kept.
PauseStep ==
    /\ (game.state = RUNNING /\ "p" \in log'.keys)
          => /\ game'.state = PAUSED /\ ~log'.updated
             /\ PauseCore(game') = [PauseCore(game) EXCEPT !.ship = game'.ship]
             /\ game'.ship.invulnerable_timer = game.ship.invulnerable_timer
    /\ (game.state = PAUSED /\ "p" \notin log'.keys)
          => /\ game'.state = PAUSED /\ ~log'.updated
             /\ PauseCore(game') = PauseCore(game)
    /\ (game.state = PAUSED /\ "p" \in log'.keys)
          => /\ log'.updated
             /\ game'.state \in {RUNNING, GAME_OVER}
             /\ game'.frame_count = game.frame_count + 1

\* C11: pause is a symmetric toggle (p in RUNNING leads to PAUSED, p in
\* PAUSED leads back to RUNNING) and a paused interval changes none of
\* distance, speeds, score, spare lives, invulnerability countdown, spawn
\* timer, frame count, milestone cursor and queue, and entity positions.
C11_PauseTogglesAndPreserves == [][PauseStep]_vars

C11_Resumed ==
    /\ log.pre.state = PAUSED /\ "p" \in log.keys
    /\ game.state = RUNNING /\ log.updated /\ game.obstacles # << >>

\* The state only a RUNNING update may change: distance, base and
\* effective speed, score, spare lives, milestone cursor and queue, the
\* entity lists, and the ship's position and invulnerability.
ActiveCore(g) ==
    [ distance |-> g.distance, obstacle_speed |-> g.obstacle_speed,
      current_speed |-> g.current_speed, score |-> g.score,
      extra_lives |-> g.extra_lives, milestone_index |-> g.milestone_index,
      procedural_milestones |-> g.procedural_milestones,
      obstacles |-> g.obstacles, black_holes |-> g.black_holes,
      portals |-> g.portals, planets |-> g.planets, ship |-> g.ship ]

\* C12: an iteration of Game.run whose update step does not find the
\* state RUNNING leaves the core unchanged: distance, speeds, score, spare
\* lives, milestone cursor and queue, entity lists, ship position and
\* invulnerability.  The iteration in which a colour key calls reset_game
\* is not held against the property: starting a run re-initialises the core.
C12_OnlyRunningChangesCore ==
    [][(~log'.updated /\ log'.run_no = log.run_no)
          => ActiveCore(game') = ActiveCore(game)]_vars

\* One iteration of Game.run seen from the launch: the iteration that
\* enters LAUNCH_ANIMATION is the first of its updates, every iteration in
\* LAUNCH_ANIMATION adds one to the timer whatever the keys and the event,
\* and the state it leaves is LAUNCH_ANIMATION until the update numbered
\* LaunchDuration, which leaves RUNNING.
LaunchStep ==
    /\ (game.state # LAUNCH_ANIMATION /\ game'.state = LAUNCH_ANIMATION)
          => game'.launch_timer = 1
    /\ game.state = LAUNCH_ANIMATION
          => /\ game'.launch_timer = game.launch_timer + 1
             /\ game'.state = IF game'.launch_timer = LaunchDuration
                              THEN RUNNING ELSE LAUNCH_ANIMATION

\* C13: a run that enters LAUNCH_ANIMATION reaches RUNNING with the update
\* numbered launch_duration (180), whatever the input of those iterations,
\* and no other state is entered from LAUNCH_ANIMATION.
C13_LaunchEndsByTimeAlone ==
    /\ [](game.state = LAUNCH_ANIMATION
            => game.launch_timer \in 1..(LaunchDuration - 1))
    /\ [][LaunchStep]_vars

C13_LaunchCompleted ==
    /\ log.pre.state = LAUNCH_ANIMATION /\ game.state = RUNNING
    /\ game.launch_timer = LaunchDuration /\ game.frame_count = 0

\* An iteration that enters GAME_OVER: update_game ran past its state test
\* (the iteration began in RUNNING, or in PAUSED with p held), and in it
\* handle_collision was called for an overlap of an obstacle or black hole
\* with a ship that was not invulnerable and had no spare life.
EndStep ==
    (game.state # GAME_OVER /\ game'.state = GAME_OVER)
        => /\ log'.updated
           /\ \/ game.state = RUNNING
              \/ game.state = PAUSED /\ "p" \in log'.keys
           /\ \E i \in 1..Len(log'.collisions) :
                 /\ log'.collisions[i].lives = 0
                 /\ ~log'.collisions[i].invulnerable

\* C14: GAME_OVER is entered only by handle_collision's terminal branch in
\* a tick that update_game ran in RUNNING: a ship that is not invulnerable
\* and has zero spare lives overlaps an obstacle or black hole.  No input
\* and no other state leads to GAME_OVER.
C14_EndedOnlyByFatalCollision == [][EndStep]_vars

C14_RunEnded ==
    /\ log.pre.state = RUNNING /\ game.state = GAME_OVER
    /\ Len(log.collisions) >= 1 /\ log.lives_at_check = 0

\* C15: the number of spare lives is an integer from 0 to MAX_EXTRA_LIVES
\* in every reachable state, whatever grants, teleports and collisions
\* came before.
C15_SpareLivesWithinBounds ==
    game.extra_lives \in 0..MAX_EXTRA_LIVES

\* A life check that found the next mark crossed with all lives held.
C15_GrantWithheldAtCap ==
    /\ log.updated /\ log.lives_at_check = MAX_EXTRA_LIVES
    /\ game.extra_lives = MAX_EXTRA_LIVES
    /\ game.distance >= game.last_life_distance + EXTRA_LIFE_DISTANCE
    /\ log.teleports = << >>

\* An iteration whose life check grants a spare life: the run's previous
\* life check had not found that mark crossed already.
LifeGrantStep ==
    (log'.updated /\ log'.run_no = log.run_no
        /\ log'.lives_at_check = game.extra_lives + 1)
        => ~log.withheld

\* C16: every spare life is granted by the first life check that finds the
\* distance at or beyond the distance of the last grant plus 1,000,000,000
\* km: the check of the tick before still found it below that mark, so a
\* collision or a lost life never causes a grant.
C16_LivesGrantedAtTheCrossing == [][LifeGrantStep]_vars

RECURSIVE SumSeq(_)
SumSeq(s) == IF s = << >> THEN 0 ELSE Head(s) + SumSeq(Tail(s))

\* An update in which the ship overlapped portals: each made one jump of
\* teleport_options, the distance is the tick's own advance plus the
\* jumps, each portal gave 10 points (counted in ticks that remove nothing
\* as off screen), no portal overlapping the ship is left in the list and
\* at most one portal joined it; and when no obstacle or black hole was
\* hit, the spare lives, the invulnerability and the state are those the
\* tick had before the portals.
PortalStep ==
    (log'.updated /\ log'.teleports # << >>)
        => /\ \A i \in 1..Len(log'.teleports) :
                 log'.teleports[i] \in teleport_options
           /\ game'.pixels_traveled = game.pixels_traveled + game'.current_speed
                                        + SumSeq(log'.teleports)
           /\ game'.distance = DistanceOf(game'.pixels_traveled)
           /\ log'.reaped = 0
                 => /\ game'.score = game.score + 10 * Len(log'.teleports)
                          + (IF game'.frame_count % 60 = 0 THEN 1 ELSE 0)
                    /\ Len(game'.portals) - Len(game.portals) + Len(log'.teleports)
                          \in {0, 1}
           /\ \A i \in 1..Len(game'.portals) :
                 ~colliderect(ship_rect(game'.ship), entity_rect(game'.portals[i]))
           /\ log'.collisions = << >>
                 => /\ game'.extra_lives = log'.lives_at_check
                    /\ game'.ship.invulnerable = log'.inv_at_check
                    /\ game'.ship.invulnerable_timer <= game.ship.invulnerable_timer
                    /\ game'.state = RUNNING

\* C17: a portal the ship overlaps in a RUNNING tick, invulnerable or not,
\* is removed, moves the distance forward by one value of the fixed set
\* (100 .. 1,000,000,000 km) and adds 10 to the score; the overlap itself
\* changes neither the spare lives, nor the invulnerability, nor the state.
C17_PortalIsNotACollision == [][PortalStep]_vars

C17_CollectedWhileInvulnerable ==
    /\ log.updated /\ Len(log.teleports) = 1 /\ log.inv_at_check
    /\ log.collisions = << >> /\ log.ignored > 0
    /\ game.ship.invulnerable /\ game.state = RUNNING

-----------------------------------------------------------------------------
\* C18: at the end of every iteration the lists hold no entity that is off
\* screen or consumed: no obstacle, black hole or portal has x + radius < 0,
\* no planet has x + radius < -100, after an update no portal overlaps the
\* ship (a collected portal is gone), and no list.remove was attempted on
\* an entity already removed.
LeftOfScreen(entities, margin) ==
    { i \in 1..Len(entities) :
        entities[i].x + entities[i].radius * 1000 < margin }

PortalsOnShip ==
    { i \in 1..Len(game.portals) :
        colliderect(ship_rect(game.ship), entity_rect(game.portals[i])) }

C18_ListsHoldOnlyLiveEntities ==
    /\ ~log.crashed
    /\ LeftOfScreen(game.obstacles, 0) = {}
    /\ LeftOfScreen(game.black_holes, 0) = {}
    /\ LeftOfScreen(game.portals, 0) = {}
    /\ LeftOfScreen(game.planets, -100000) = {}
    /\ log.updated => PortalsOnShip = {}

\* A black hole and a portal left the screen in this update, after a planet
\* did, and obstacles are still on it.
C18_EntitiesLeftTheScreen ==
    /\ log.updated
    /\ log.reaped = 2
    /\ game.black_holes = << >> /\ game.portals = << >>
    /\ game.planet_shown[2]
    /\ \A i \in 1..Len(game.planets) :
          game.planets[i].radius # PLANET_MILESTONES[2].radius
    /\ game.obstacles # << >>

-----------------------------------------------------------------------------
\* C19: the spawn delay is never below MIN_SPAWN_DELAY, never above
\* INITIAL_SPAWN_DELAY, and within a run never increases from one
\* iteration to the next.
FractionLeq(a, b) == a.num * b.den <= b.num * a.den

SpawnDelayWithinBounds ==
    /\ FractionLeq(Fraction(MIN_SPAWN_DELAY * 100, 1), game.spawn_delay)
    /\ FractionLeq(game.spawn_delay, Fraction(INITIAL_SPAWN_DELAY * 100, 1))

SpawnDelayStep ==
    log'.run_no = log.run_no => FractionLeq(game'.spawn_delay, game.spawn_delay)

C19_SpawnDelayBoundedAndFalling ==
    /\ []SpawnDelayWithinBounds
    /\ [][SpawnDelayStep]_vars

\* An update in which the difference INITIAL_SPAWN_DELAY / multiplier -
\* frame_count * SPAWN_DECREASE_RATE is below the minimum, and the delay
\* is the minimum.
C19_DelayAtItsMinimum ==
    /\ log.updated /\ log.ticks >= 1
    /\ game.spawn_delay = Fraction(MIN_SPAWN_DELAY * 100 * 300, 300)
    /\ INITIAL_SPAWN_DELAY * 100 * 100
          - game.frame_count * SPAWN_DECREASE_RATE * 300
            < MIN_SPAWN_DELAY * 100 * 300

-----------------------------------------------------------------------------
\* C20: a failed write of the leaderboard file does not affect the game:
\* in an iteration that calls add_score and leaves the file without the
\* record, no error leaves the iteration, the state is GAME_OVER, and every
\* field of the game (distance, score, spare lives, milestones and all the
\* rest) is what the same keys and random draws yield with the write
\* succeeding.
WriteOutcome(keys, d, io) ==
    iteration(World, keys, d.od, d.bd, d.pd, io, d.td, d.md)

\* The draws under which the iteration from the current state, with the
\* write failing, ends in the game g.
FailedDraws(keys, g) ==
    { d \in Draws(handle_input(track_input(World, keys), keys)) :
        ~d.io /\ WriteOutcome(keys, d, FALSE).g = g }

WriteFailureStep ==
    (/\ game.state = RUNNING
     /\ log'.add_calls # << >>
     /\ disk' # game'.leaderboard)
        => /\ ~log'.crashed
           /\ game'.state = GAME_OVER
           /\ FailedDraws(log'.keys, game') # {}
           /\ \A d \in FailedDraws(log'.keys, game') :
                 WriteOutcome(log'.keys, d, TRUE).g = game'

C20_WriteFailureLeavesTheGameAlone == [][WriteFailureStep]_vars

\* The run has ended in this iteration and the file lacks its record.
C20_EndedWithoutSaving ==
    /\ game.state = GAME_OVER
    /\ log.add_calls # << >>
    /\ ~log.crashed
    /\ disk # game.leaderboard

-----------------------------------------------------------------------------
\* C21: whenever get_next_planet_info returns a named milestone, the
\* milestone is not yet crossed: the remaining distance it returns is
\* positive.
C21_NextTargetIsAhead ==
    get_next_planet_info(game).name # "Deep Space"
        => get_next_planet_info(game).distance_to_planet > 0

-----------------------------------------------------------------------------
\* C22: passing Neptune triggers the special transition exactly once per
\* run.  In the iteration in which the cursor reaches the end of the table
\* passed_neptune becomes true and the empty procedural list receives
\* exactly one entry; before the cursor is at the end no procedural
\* milestone is shown and the list is empty; and once it is at the end it
\* stays there for the rest of the run, so the transition cannot happen
\* again.
AtTableEnd(g) == g.milestone_index = Len(PLANET_MILESTONES)

NeptuneStep ==
    log'.run_no = log.run_no =>
        /\ (AtTableEnd(game') /\ ~AtTableEnd(game)) =>
              /\ ~game.passed_neptune /\ game'.passed_neptune
              /\ game.procedural_milestones = << >>
              /\ Len(game'.procedural_milestones) = 1
              /\ log'.fixed_events = <<"Neptune">>
        /\ ~AtTableEnd(game) => log'.proc_events = << >>
        /\ AtTableEnd(game) => AtTableEnd(game') /\ log'.fixed_events = << >>

C22_NeptuneTransitionOnce ==
    /\ [](/\ game.passed_neptune <=> AtTableEnd(game)
          /\ ~AtTableEnd(game) => game.procedural_milestones = << >>
          /\ Len(SelectSeq(log.fired, LAMBDA n : n = "Neptune"))
                = IF AtTableEnd(game) THEN 1 ELSE 0)
    /\ [][NeptuneStep]_vars

\* Neptune was passed in this iteration: the first procedural milestone is
\* in the list and none has been shown.
C22_NeptuneJustPassed ==
    /\ log.updated
    /\ log.fixed_events = <<"Neptune">>
    /\ game.passed_neptune
    /\ Len(game.procedural_milestones) = 1

-----------------------------------------------------------------------------
\* C23: each procedural milestone fires at most once.  In an update of the
\* procedural phase every unconsumed entry whose threshold the distance has
\* reached is shown and its threshold replaced by -1; the entries shown are
\* exactly those consumed in this iteration; and a consumed entry stays
\* consumed for the rest of the run, whatever the distance does.
Consumed(g) ==
    { i \in 1..Len(g.procedural_milestones) :
        g.procedural_milestones[i].distance = -1 }

Reached(g) ==
    { i \in 1..Len(g.procedural_milestones) :
        /\ g.procedural_milestones[i].distance > 0
        /\ g.distance >= g.procedural_milestones[i].distance }

ProceduralStep ==
    log'.run_no = log.run_no =>
        /\ Consumed(game) \subseteq Consumed(game')
        /\ Len(log'.proc_events) = Cardinality(Consumed(game') \ Consumed(game))
        /\ \A k \in 1..Len(log'.proc_events) :
              \E i \in Consumed(game') \ Consumed(game) :
                  /\ i \in 1..Len(game.procedural_milestones)
                        => game.procedural_milestones[i].distance
                             = log'.proc_events[k]
                  /\ i > Len(game.procedural_milestones)
                        => log'.proc_events[k] \in
                             { log'.generated[n] : n \in 1..Len(log'.generated) }
        /\ (AtTableEnd(game) /\ log'.updated) => Reached(game') = {}

C23_ProceduralFiresOnce == [][ProceduralStep]_vars

\* A procedural milestone was shown in an earlier iteration and none is
\* shown in this one, in which the ship has teleported.
C23_ConsumedStaysSilent ==
    /\ log.updated
    /\ Consumed(game) # {}
    /\ log.proc_events = << >>
    /\ log.teleports # << >>

-----------------------------------------------------------------------------
(* The procedural phase over a longer stretch of one run: the loop of      *)
(* Game.run with no key held and no black hole or portal spawned, every    *)
(* portal collected teleporting by either jump and every generated         *)
(* milestone drawn either way.  The loop keeps iterating (weak fairness);  *)
(* the portals that reach the ship are those already on the screen.        *)

MaxProceduralTicks == 12   \* iterations of the run explored after Init

\* Frame 235 of a run in which the ship moved down for the first 12 frames
\* and collected the four portals of frames 13-16 as far jumps in frames
\* 220-223: Uranus has been passed and Neptune is 9,200,000 units ahead.
\* The portals of frames 31, 32 and 34 reach the ship in frames 237, 238
\* and 240.
NeptuneAhead ==
    Replay(Constructed(<< >>),
           Launch \o << Segment(12, {"s"}, 0, 0, FarJump),
                        Segment(4, {}, 0, 70, FarJump), Still(14, FarJump),
                        Segment(2, {}, 0, 70, FarJump), Still(1, FarJump),
                        Segment(1, {}, 0, 70, FarJump), Still(201, FarJump) >>)

\* The run is in progress and within the explored stretch.
TickEnabled ==
    /\ running /\ game.state = RUNNING
    /\ log.ticks < MaxProceduralTicks

ProceduralTick ==
    /\ TickEnabled
    /\ \E tele \in TeleportChoices, n \in ProceduralDraws :
          Commit(iteration(World, {}, ScriptObstacle, NoDraw, NoDraw, TRUE,
                           <<tele, tele, tele>>,
                           [planet_y |-> 300, name |-> n.name,
                            is_galaxy |-> n.is_galaxy, step |-> n.step]),
                 "none")

InitProcedural ==
    /\ game = NeptuneAhead.g
    /\ log = Fresh(NeptuneAhead).l
    /\ disk = NeptuneAhead.disk
    /\ running = TRUE
    /\ twin = Idle
    /\ probe = Idle

NextProcedural == ProceduralTick

\* Weak fairness of ProceduralTick, WF_vars(ProceduralTick), written out:
\* ProceduralTick counts the iteration in log.ticks, so it is enabled
\* exactly when TickEnabled holds.
TickFairness ==
    []<>(~TickEnabled) \/ []<><<ProceduralTick>>_vars

SpecProcedural ==
    InitProcedural /\ [][NextProcedural]_vars /\ TickFairness

\* C24: the procedural phase never exhausts.  Once Neptune has been passed
\* and while the run keeps iterating, the list always eventually holds an
\* unconsumed entry whose threshold is beyond the distance; and an
\* iteration appends at most one entry.
TargetAhead(g) ==
    \E i \in 1..Len(g.procedural_milestones) :
        g.procedural_milestones[i].distance > g.distance

AppendStep ==
    log'.run_no = log.run_no =>
        Len(game'.procedural_milestones) <= Len(game.procedural_milestones) + 1

-----------------------------------------------------------------------------
\* C25: the score of an update is the survival point of every 60th frame,
\* 1 for each obstacle and 5 for each black hole whose right edge crosses
\* x = 0 in this update, and 10 for each portal collected: leaving the
\* screen is scored once, when the entity is removed, and a spawn scores
\* nothing.  Outside an update the score stays, so within a run it never
\* decreases.
Leaving(entities) ==
    Cardinality({ i \in 1..Len(entities) :
        LET e == entity_update(entities[i], game'.current_speed,
                               game'.obstacle_speed)
        IN  e.x + e.radius * 1000 < 0 })

ScoreStep ==
    log'.run_no = log.run_no =>
        /\ game'.score >= game.score
        /\ ~log'.updated => game'.score = game.score
        /\ log'.updated =>
              /\ game'.score = game.score
                    + (IF game'.frame_count % 60 = 0 THEN 1 ELSE 0)
                    + Leaving(game.obstacles)
                    + 5 * Leaving(game.black_holes)
                    + 10 * Len(log'.teleports)
              /\ Len(game'.obstacles) = Len(game.obstacles)
                    - Leaving(game.obstacles)
                    + (IF game'.spawn_timer = 0 THEN 1 ELSE 0)

C25_LeavingScoredOnceAtRemoval == [][ScoreStep]_vars

\* A boosted update in which a planet, a portal, the last black hole and an
\* obstacle have left the screen.
C25_BlackHoleAndObstacleScored ==
    /\ log.updated
    /\ game.is_boosting
    /\ log.reaped = 4
    /\ game.black_holes = << >>

-----------------------------------------------------------------------------
\* C26: the obstacle stream follows the spawn timer.  An update spawns an
\* obstacle exactly when the incremented timer reaches the spawn delay of
\* that update, and then resets the timer to 0; otherwise the timer counts
\* the update.  After every iteration the timer is below the delay, and
\* the updates between two spawns (the timer at the spawn) number at least
\* MIN_SPAWN_DELAY and at most INITIAL_SPAWN_DELAY.
TimerDue ==
    (game.spawn_timer + 1) * 100 * game'.spawn_delay.den
        >= game'.spawn_delay.num

ObstaclesSpawned ==
    Len(game'.obstacles) - (Len(game.obstacles) - Leaving(game.obstacles))

SpawnStep ==
    log'.run_no = log.run_no =>
        /\ ~log'.updated =>
              /\ game'.spawn_timer = game.spawn_timer
              /\ game'.obstacles = game.obstacles
        /\ (log'.updated /\ TimerDue) =>
              /\ ObstaclesSpawned = 1
              /\ game'.spawn_timer = 0
              /\ game.spawn_timer + 1 \in MIN_SPAWN_DELAY..INITIAL_SPAWN_DELAY
        /\ (log'.updated /\ ~TimerDue) =>
              /\ ObstaclesSpawned = 0
              /\ game'.spawn_timer = game.spawn_timer + 1

C26_ObstaclesFollowTheTimer ==
    /\ [](game.spawn_timer * 100 * game.spawn_delay.den < game.spawn_delay.num)
    /\ [][SpawnStep]_vars

\* An obstacle has been spawned in this update, the first of the run, 90
\* updates after the reset.
C26_FirstObstacleSpawned ==
    /\ log.updated
    /\ game.frame_count = INITIAL_SPAWN_DELAY
    /\ game.spawn_timer = 0
    /\ Len(game.obstacles) = 1

-----------------------------------------------------------------------------
\* C27: the pause toggle is edge-triggered.  When the pause key was held
\* in the previous iteration of a run and is still held in this one, this
\* iteration makes no transition between RUNNING and PAUSED.
HeldPauseStep ==
    ( /\ log'.run_no = log.run_no
      /\ game.state \in {RUNNING, PAUSED}
      /\ "p" \in log.keys
      /\ "p" \in log'.keys )
    => ~ ({game.state, game'.state} = {RUNNING, PAUSED})

C27_HeldPauseKeyTogglesOnce == [][HeldPauseStep]_vars

-----------------------------------------------------------------------------
\* C28: up and down held together cancel.  In an iteration of RUNNING with
\* both directions held, the ship's y after the iteration equals its y
\* before it, for every y of the band 10 .. SCREEN_HEIGHT - height - 10,
\* and stays in the band.
Band == 10..(SCREEN_HEIGHT - ShipHeight - 10)

BothHeldStep ==
    ( /\ game.state = RUNNING
      /\ log'.run_no = log.run_no
      /\ {"UP", "DOWN"} \subseteq log'.keys
      /\ game.ship.y \in Band )
    => /\ game'.ship.y = game.ship.y
       /\ game'.ship.y \in Band

C28_UpAndDownCancel == [][BothHeldStep]_vars

-----------------------------------------------------------------------------
(* A run under fire, followed through two invulnerability windows: the     *)
(* ship stays in the lane of the obstacles and of a steady stream of black *)
(* holes, and the player may pause.                                        *)

MaxWindowTicks == 248   \* iterations of the run explored after Init
MaxPausedTicks == 2     \* of them, iterations in which update_game returns
                        \* at its state test

\* The random draw of lines 662-664 succeeds in every BlackHolePeriod-th
\* frame, at the ship's height.
BlackHolePeriod == 8

RECURSIVE HazardStream(_)
HazardStream(k) ==
    IF k = 0 THEN << >>
    ELSE << Segment(1, {}, 80, 0, FarJump),
            Still(BlackHolePeriod - 1, FarJump) >> \o HazardStream(k - 1)

\* Frame 289 of a run that holds two spare lives, won by the far jumps of
\* frames 210 and 211, with black holes on their way since frame 97: the
\* obstacle of frame 90 reaches the ship in frame 292, and from then on
\* the ship is never clear of hazards.
TwoLivesUnderFire ==
    Replay(Constructed(<< >>),
           Launch \o << Segment(2, {}, 0, 70, FarJump), Still(94, FarJump) >>
                  \o HazardStream(24)
                  \o << Segment(1, {}, 80, 0, FarJump) >>)

\* Iterations since Init in which update_game returned at its state test.
NotUpdated ==
    log.ticks - (game.frame_count - TwoLivesUnderFire.g.frame_count)

WindowTickEnabled ==
    /\ running /\ game.state \in {RUNNING, PAUSED}
    /\ log.ticks < MaxWindowTicks

\* One iteration of Game.run in RUNNING or PAUSED.  With p held in RUNNING
\* and with p released in PAUSED the iteration ends in PAUSED.
WindowTick ==
    /\ WindowTickEnabled
    /\ \E keys \in {{}, {"p"}} :
          /\ (game.state = RUNNING) = ("p" \in keys)
                => NotUpdated < MaxPausedTicks
          /\ Commit(script_iteration(World,
                  Segment(1, keys,
                          IF game.frame_count % BlackHolePeriod = 0
                          THEN 80 ELSE 0,
                          0, FarJump)), "none")

InitWindow ==
    /\ game = TwoLivesUnderFire.g
    /\ log = Fresh(TwoLivesUnderFire).l
    /\ disk = TwoLivesUnderFire.disk
    /\ running = TRUE
    /\ twin = Idle
    /\ probe = Idle

NextWindow == WindowTick

\* Weak fairness of WindowTick, WF_vars(WindowTick), written out:
\* WindowTick counts the iteration in log.ticks, and one of its two key
\* sets is always allowed, so it is enabled exactly when WindowTickEnabled
\* holds.
WindowFairness ==
    []<>(~WindowTickEnabled) \/ []<><<WindowTick>>_vars

SpecWindow == InitWindow /\ [][NextWindow]_vars /\ WindowFairness

\* C29: at most one spare life is lost per iteration, and a life loss is
\* followed by 120 updates without a further loss and without the end of
\* the run, however many obstacles and black holes overlap the ship: an
\* iteration that takes a life calls handle_collision once, and every
\* handle_collision call comes 120 or more updates after the run's last
\* life loss.
LivesLost(collisions) ==
    Cardinality({ i \in 1..Len(collisions) : collisions[i].lives > 0 })

LossStep ==
    log'.run_no = log.run_no =>
        /\ LivesLost(log'.collisions) <= 1
        /\ LivesLost(log'.collisions) = 1 => Len(log'.collisions) = 1
        /\ game'.extra_lives >= game.extra_lives - 1
        /\ (log'.collisions # << >> /\ log.loss_frame > 0) =>
              game'.frame_count >= log.loss_frame + InvulnerableFrames

C29_OneLossPerWindow == [][LossStep]_vars

\* The run has ended under several hazards at once, exactly 120 updates
\* after its last life loss.
C29_EndedAsTheWindowClosed ==
    /\ game.state = GAME_OVER
    /\ Len(log.collisions) > 1
    /\ game.frame_count = log.loss_frame + InvulnerableFrames

-----------------------------------------------------------------------------
\* C30: the invulnerability flag is set exactly while the countdown is
\* positive; the countdown stands still in an iteration that does not
\* update and otherwise goes down by one, unless a life loss restarts it;
\* while the flag is set the countdown is 120 less the updates since the
\* life loss, so that the update 120 frames after the loss finds the flag
\* cleared; and a set flag is always eventually cleared.
FlagFollowsCountdown ==
    game.ship.invulnerable <=> game.ship.invulnerable_timer > 0

CountdownCountsUpdates ==
    game.ship.invulnerable =>
        /\ log.loss_frame > 0
        /\ game.ship.invulnerable_timer
              = InvulnerableFrames - (game.frame_count - log.loss_frame)

CountdownStep ==
    log'.run_no = log.run_no =>
        /\ ~log'.updated =>
              /\ game'.ship.invulnerable_timer = game.ship.invulnerable_timer
              /\ game'.ship.invulnerable = game.ship.invulnerable
        /\ log'.updated =>
              /\ game'.ship.invulnerable_timer
                    \in {Max(game.ship.invulnerable_timer - 1, 0),
                         InvulnerableFrames}
              /\ log'.inv_at_check <=> game.ship.invulnerable_timer > 1
              /\ (/\ log.loss_frame > 0
                  /\ game'.frame_count >= log.loss_frame + InvulnerableFrames)
                    => ~log'.inv_at_check

C30_WindowExpires ==
    /\ [](FlagFollowsCountdown /\ CountdownCountsUpdates)
    /\ [][CountdownStep]_vars
    /\ (game.ship.invulnerable ~> ~game.ship.invulnerable)

\* The flag has been cleared in the update 120 frames after the life
\* loss, in a run that spent iterations paused.
C30_ExpiredAfterPauses ==
    /\ log.updated /\ ~log.inv_at_check
    /\ ~game.ship.invulnerable
    /\ game.frame_count = log.loss_frame + InvulnerableFrames
    /\ NotUpdated = MaxPausedTicks

====
